---- MODULE Spec2Model ----
(***************************************************************************)
(* A model of the pantomime virtual machine: the frame-based bytecode      *)
(* interpreter of src/src/frame.rs (Frame::step) and the driver loop, the  *)
(* class-static table and the object heap of src/src/lib.rs                *)
(* (VirtualMachine::start, CommonDataStore, ObjectHeap).                   *)
(*                                                                         *)
(* One TLA+ step is one turn of a loop of the program: Dispatch is the     *)
(* head of the driver loop (it pops the top frame), and every other action *)
(* is one turn of the `while let Some(opcode)` loop of Frame::step on the  *)
(* popped frame, together with the driver's handler when that instruction  *)
(* makes step return.                                                      *)
(***************************************************************************)
EXTENDS Integers, Sequences, FiniteSets, TLC

(***************************************************************************)
(* Bounds of the model.                                                    *)
(***************************************************************************)
\* The main method of a generated program is a sequence of at most
\* MaxFragments instruction fragments followed by `return`.
MaxFragments == 3

(***************************************************************************)
(* JavaType: the tagged values of operand stacks, locals and heap slots.   *)
(***************************************************************************)
JByte(n) == [t |-> "Byte", v |-> n]
JChar(n) == [t |-> "Char", v |-> n]
JInt(n) == [t |-> "Int", v |-> n]
JLong(n) == [t |-> "Long", v |-> n]
Reference(n) == [t |-> "Reference", v |-> n]
Null == [t |-> "Null", v |-> 0]
Filler == [t |-> "Filler", v |-> 0]
Empty == [t |-> "Empty", v |-> 0]

\* The bounds of i32.  Values of i64 are kept within the same bounds by the
\* programs of the model, so that 64-bit arithmetic on them is exact.
MaxInt32 == 2147483647
MinInt32 == -2147483647 - 1

\* Two's-complement reading of an integer in w <= 16 bits (Rust `as i8`,
\* `as i16`).
Wrap(n, w) == LET m == n % (2 ^ w) IN IF m >= 2 ^ (w - 1) THEN m - 2 ^ w ELSE m
InRange(n, w) == n >= -(2 ^ (w - 1)) /\ n < 2 ^ (w - 1)

\* a + b, a - b and a * b in i32: whether the exact result leaves i32, and
\* the result wrapped to 32 bits, computed without leaving i32.
AddOverflows(a, b) ==
  \/ b > 0 /\ a > MaxInt32 - b
  \/ b < 0 /\ a < MinInt32 - b
WrappingAdd(a, b) ==
  IF ~AddOverflows(a, b) THEN a + b
  ELSE IF b > 0 THEN (a + MinInt32) + (b + MinInt32)
       ELSE (a - MinInt32) + (b - MinInt32)
SubOverflows(a, b) ==
  \/ b < 0 /\ a > MaxInt32 + b
  \/ b > 0 /\ a < MinInt32 + b
WrappingSub(a, b) ==
  IF ~SubOverflows(a, b) THEN a - b
  ELSE IF b < 0 THEN (a + MinInt32) - (b - MinInt32)
       ELSE (a - MinInt32) - (b + MinInt32)
WrappingMul(a, b) ==
  LET ah == a \div 65536
      al == a % 65536
      bh == b \div 65536
      bl == b % 65536
      x == (al % 256) * (bl % 256)
           + 256 * ((al \div 256) * (bl % 256) + (al % 256) * (bl \div 256))
      h == ((x \div 65536) + (al \div 256) * (bl \div 256)
            + ((ah * bl) % 65536) + ((al * bh) % 65536)) % 65536
  IN Wrap(h, 16) * 65536 + (x % 65536)
Abs(n) == IF n < 0 THEN -n ELSE n
MulOverflows(a, b) ==
  IF a = 0 \/ b = 0 THEN FALSE
  ELSE IF a = MinInt32 THEN b # 1
  ELSE IF b = MinInt32 THEN a # 1
  ELSE IF (a < 0) = (b < 0)
       THEN Abs(a) > MaxInt32 \div Abs(b)
       ELSE Abs(a) - 1 > (MaxInt32 - (Abs(b) - 1)) \div Abs(b)

(***************************************************************************)
(* Method descriptors are sequences of characters.                         *)
(***************************************************************************)
Letters ==
  {"A", "B", "C", "D", "E", "F", "G", "H", "I", "J", "K", "L", "M", "N", "O",
   "P", "Q", "R", "S", "T", "U", "V", "W", "X", "Y", "Z",
   "a", "b", "c", "d", "e", "f", "g", "h", "i", "j", "k", "l", "m", "n", "o",
   "p", "q", "r", "s", "t", "u", "v", "w", "x", "y", "z"}
\* [A-Za-z/\[;] and [A-Za-z\[;], the character classes of DESCRIPTOR_REGEX.
ArgumentChars == Letters \cup {"/", "[", ";"}
ReturnChars == Letters \cup {"[", ";"}

\* Index of the first ")" of d, or 0.
RECURSIVE FirstClose(_, _)
FirstClose(d, i) ==
  IF i > Len(d) THEN 0 ELSE IF d[i] = ")" THEN i ELSE FirstClose(d, i + 1)

\* DESCRIPTOR_REGEX.captures(descriptor).name("arguments"): the characters
\* between "(" and ")" when the whole descriptor matches, and no match
\* otherwise.
DescriptorCaptures(d) ==
  LET c == FirstClose(d, 1) IN
  IF /\ Len(d) >= 1 /\ d[1] = "("
     /\ c > 2
     /\ \A i \in 2..(c - 1) : d[i] \in ArgumentChars
     /\ c < Len(d)
     /\ \A i \in (c + 1)..Len(d) : d[i] \in ReturnChars
  THEN [matched |-> TRUE, arguments |-> SubSeq(d, 2, c - 1)]
  ELSE [matched |-> FALSE, arguments |-> <<>>]

\* The loop of determine_number_of_arguments over the argument characters
\* from position i on; -1 stands for the panic "Unknown descriptor
\* character".
RECURSIVE CountArguments(_, _, _)
CountArguments(a, i, n) ==
  IF i > Len(a) THEN n
  ELSE IF a[i] = "L"
       THEN LET rest == {j \in (i + 1)..Len(a) : a[j] = ";"}
                stop == IF rest = {} THEN Len(a)
                        ELSE CHOOSE j \in rest : \A k \in rest : j <= k
            IN CountArguments(a, stop + 1, n + 1)
       ELSE IF a[i] \in {"B", "C", "F", "I", "S", "Z"}
            THEN CountArguments(a, i + 1, n + 1)
            ELSE IF a[i] \in {"J", "D"}
                 THEN CountArguments(a, i + 1, n + 2)
                 ELSE -1

determine_number_of_arguments(descriptor) ==
  LET m == DescriptorCaptures(descriptor) IN
  IF ~m.matched THEN 0 ELSE CountArguments(m.arguments, 1, 0)

(***************************************************************************)
(* The classfiles on the classpath.  The classfile parser and the class    *)
(* loader are collaborators of the interpreter: a parsed class is a record *)
(* of its constant pool (already resolved to names, as Resolver and        *)
(* ConstantPoolItem::retrieve_* resolve it), its fields and its methods.   *)
(***************************************************************************)
STRING_CLASS == "java/lang/String"

Fieldref(c, n) == [tag |-> "Fieldref", class_name |-> c, name |-> n]
Methodref(c, n, d) ==
  [tag |-> "Methodref", class_name |-> c, name |-> n, descriptor |-> d]
ClassInfo(c) == [tag |-> "Class", class_name |-> c]
LongInfo(hi, lo) == [tag |-> "Long", high_bytes |-> hi, low_bytes |-> lo]
\* The u32 of an Integer item is kept as its two 16-bit halves, and the u32
\* halves of a Long item as numbers below 2^31.
IntegerInfo(high, low) == [tag |-> "Integer", bytes |-> <<high, low>>]
StringInfo(chars) == [tag |-> "String", contents |-> chars]

\* The constant pool the classes of the model share, by constant-pool index.
ConstantPool ==
  ( 1 :> Fieldref("Bar", "f")
 @@ 2 :> Fieldref("Foo", "x")
 @@ 3 :> ClassInfo("Foo")
 @@ 4 :> Fieldref("Qux", "g")
 @@ 5 :> Methodref("Sys", "print", <<"(", "I", ")", "V">>)
 @@ 6 :> Methodref("Sys", "print", <<"(", "J", ")", "V">>)
 @@ 7 :> Methodref("Main", "two", <<"(", "I", "I", ")", "I">>)
 @@ 8 :> Methodref("Main", "lng", <<"(", "J", ")", "V">>)
 @@ 9 :> Methodref("Foo", "<init>", <<"(", ")", "V">>)
 @@ 10 :> Methodref("Foo", "get", <<"(", "I", ")", "I">>)
 @@ 11 :> Methodref("Main", "mk", <<"(", ")", "L", "F", "o", "o", ";">>)
 @@ 12 :> LongInfo(0, 1)
 @@ 13 :> LongInfo(0, 2)
 @@ 14 :> StringInfo(<<104, 105>>)
 @@ 15 :> Methodref("Main", "rec", <<"(", ")", "V">>)
 @@ 16 :> Methodref("Sys", "print",
                    <<"(", "L", "j", "a", "v", "a", "/", "l", "a", "n", "g", "/",
                      "S", "t", "r", "i", "n", "g", ";", ")", "V">>)
 @@ 17 :> Fieldref("Baz", "h")
 @@ 18 :> Fieldref("Foo", "n")
 @@ 19 :> IntegerInfo(0, 7)
 @@ 20 :> Methodref("Foo", "sum", <<"(", "I", "J", ")", "I">>)
 @@ 21 :> Methodref("Foo", "name",
                    <<"(", "I", ")", "L", "j", "a", "v", "a", "/", "l", "a", "n",
                      "g", "/", "S", "t", "r", "i", "n", "g", ";">>)
 @@ 22 :> Methodref("Main", "arr", <<"(", "[", "I", ")", "V">>)
 @@ 23 :> IntegerInfo(32767, 65535)
 @@ 24 :> IntegerInfo(65535, 65529)
 @@ 25 :> Methodref("Sys", "print", <<"(", "B", ")", "V">>) )

Method(native, code, max_locals) ==
  [native |-> native, has_code |-> ~native, code |-> code,
   max_locals |-> max_locals]
Field(name, descriptor, static) ==
  [name |-> name, descriptor |-> descriptor, static |-> static]

\* A method of FarBranchAt + 3 bytes: a goto at offset 0 to the goto at
\* offset FarBranchAt, which branches back to offset 0; the bytes between
\* them are never executed.
FarBranchAt == 32767
FarBranchCode ==
  [i \in 1..(FarBranchAt + 3) |->
     CASE i = 1 -> 167
       [] i = 2 -> FarBranchAt \div 256
       [] i = 3 -> FarBranchAt % 256
       [] i = FarBranchAt + 1 -> 167
       [] i = FarBranchAt + 2 -> (65536 - FarBranchAt) \div 256
       [] i = FarBranchAt + 3 -> (65536 - FarBranchAt) % 256
       [] OTHER -> 177]

\* A method of FarBranchAt + 4 bytes: iconst_0, iconst_1 and a goto to the
\* if_icmpge at offset FarBranchAt, whose operand is -FarBranchAt and whose
\* values, 0 and 1, do not take it; a return follows it.
FarUntakenCode ==
  [i \in 1..(FarBranchAt + 4) |->
     CASE i = 1 -> 3
       [] i = 2 -> 4
       [] i = 3 -> 167
       [] i = 4 -> (FarBranchAt - 2) \div 256
       [] i = 5 -> (FarBranchAt - 2) % 256
       [] i = FarBranchAt + 1 -> 162
       [] i = FarBranchAt + 2 -> (65536 - FarBranchAt) \div 256
       [] i = FarBranchAt + 3 -> (65536 - FarBranchAt) % 256
       [] OTHER -> 177]

\* The instruction fragments a main method is put together from.
FragmentCode(name) ==
  CASE name = "new_Foo" -> <<187, 0, 3>>
    [] name = "far_untaken_branch" -> FarUntakenCode
    [] name = "loop_print_3" ->
         <<3, 60, 27, 16, 3, 162, 0, 13, 27, 184, 0, 5, 132, 1, 1,
           167, 255, 243, 177>>
    [] name = "far_branch_back" -> FarBranchCode
    [] name = "putstatic_Bar_f" -> <<179, 0, 1>>
    [] name = "getstatic_Bar_f" -> <<178, 0, 1>>
    [] name = "getstatic_Foo_x" -> <<178, 0, 2>>
    [] name = "putstatic_Qux_g" -> <<179, 0, 4>>
    [] name = "getstatic_Qux_g" -> <<178, 0, 4>>
    [] name = "getstatic_Baz_h" -> <<178, 0, 17>>
    [] name = "iconst_4" -> <<7>>
    [] name = "call_two" -> <<4, 5, 184, 0, 7>>
    [] name = "call_mk" -> <<184, 0, 11>>
    [] name = "call_get" -> <<6, 182, 0, 10>>
    [] name = "call_sum" -> <<6, 20, 0, 13, 183, 0, 20>>
    [] name = "call_init" -> <<89, 183, 0, 9>>
    [] name = "call_name" -> <<6, 182, 0, 21>>
    [] name = "newarray" -> <<188, 10>>
    [] name = "getfield_Foo_n" -> <<180, 0, 18>>
    [] name = "putfield_Foo_n" -> <<181, 0, 18>>
    [] name = "pop" -> <<87>>
    [] name = "i2b" -> <<145>>
    [] name = "iconst_3" -> <<6>>
    [] name = "bipush_200" -> <<16, 200>>
    [] name = "print_byte" -> <<184, 0, 25>>
    [] name = "iconst_5" -> <<8>>
    [] name = "arraylength" -> <<190>>
    [] name = "iaload" -> <<46>>
    [] name = "iastore" -> <<79>>
    [] name = "dup" -> <<89>>
    [] name = "bipush_5" -> <<16, 5>>
    [] name = "bipush_9" -> <<16, 9>>
    [] name = "iconst_0" -> <<3>>
    [] name = "iconst_1" -> <<4>>
    [] name = "iconst_2" -> <<5>>
    [] name = "ldc_max" -> <<18, 23>>
    [] name = "ldc_minus_7" -> <<18, 24>>
    [] name = "iadd" -> <<96>>
    [] name = "isub" -> <<100>>
    [] name = "imul" -> <<104>>
    [] name = "idiv" -> <<108>>
    [] name = "goto_6" -> <<167, 0, 6>>
    [] name = "goto_7" -> <<167, 0, 7>>
    [] name = "if_icmpge_6" -> <<162, 0, 6>>
    [] name = "if_icmpge_back_6" -> <<162, 255, 250>>
    [] name = "astore_1" -> <<76>>
    [] name = "istore_1" -> <<60>>
    [] name = "istore_2" -> <<61>>
    [] name = "iload_1" -> <<27>>
    [] name = "print_int" -> <<184, 0, 5>>
    [] name = "print_int_virtual" -> <<7, 182, 0, 5>>
    [] name = "ldc2_w_1" -> <<20, 0, 12>>
    [] name = "ldc2_w_2" -> <<20, 0, 13>>
    [] name = "ladd" -> <<97>>
    [] name = "lsub" -> <<101>>
    [] name = "lmul" -> <<105>>
    [] name = "ldiv" -> <<109>>
    [] name = "call_lng" -> <<184, 0, 8>>
    [] name = "print_long" -> <<184, 0, 6>>
    [] name = "ldc_string" -> <<18, 14>>
    [] name = "print_string" -> <<184, 0, 16>>
    [] name = "call_rec" -> <<184, 0, 15>>
    [] name = "call_arr" -> <<7, 188, 10, 184, 0, 22>>
    [] name = "return" -> <<177>>
    [] name = "bipush_cut" -> <<16>>
    [] name = "ldc_cut" -> <<18>>
    [] name = "ldc2_w_cut" -> <<20, 0>>
    [] name = "iinc_cut" -> <<132, 1>>
    [] name = "if_icmpge_cut" -> <<162, 0>>
    [] name = "goto_cut" -> <<167>>
    [] name = "getstatic_cut" -> <<178, 0>>
    [] name = "putfield_cut" -> <<181>>
    [] name = "invokevirtual_cut" -> <<182>>
    [] name = "invokestatic_cut" -> <<184, 0>>
    [] name = "new_cut" -> <<187, 0>>
    [] name = "newarray_cut" -> <<188>>
    [] OTHER -> <<>>

RECURSIVE Assemble(_)
Assemble(fragments) ==
  IF fragments = <<>> THEN <<>>
  ELSE FragmentCode(Head(fragments)) \o Assemble(Tail(fragments))

\* The methods of class Main other than main.
MainMethods ==
  ( "two" :> Method(FALSE, <<26, 172>>, 2)
 @@ "mk" :> Method(FALSE, <<187, 0, 3, 176>>, 0)
 @@ "lng" :> Method(FALSE, <<30, 30, 97, 184, 0, 6, 177>>, 2)
 @@ "rec" :> Method(FALSE, <<184, 0, 15, 177>>, 0)
 @@ "arr" :> Method(FALSE, <<177>>, 1) )

\* The classes of the classpath other than Main.
LibraryClasses ==
  ( "Foo" :>
      [constant_pool |-> ConstantPool,
       fields |-> <<Field("x", <<"I">>, TRUE), Field("n", <<"I">>, FALSE),
                    Field("o", <<"L", "F", "o", "o", ";">>, FALSE),
                    Field("a", <<"[", "I">>, FALSE)>>,
       methods |->
         ( "<clinit>" :> Method(FALSE, <<4, 179, 0, 2, 177>>, 0)
        @@ "<init>" :> Method(FALSE, <<177>>, 1)
        @@ "get" :> Method(FALSE, <<27, 172>>, 2)
        @@ "sum" :> Method(FALSE, <<27, 172>>, 4)
        @@ "name" :> Method(FALSE, <<43, 176>>, 2) )]
 @@ "Bar" :>
      [constant_pool |-> ConstantPool,
       fields |-> <<Field("f", <<"I">>, TRUE)>>,
       methods |-> ( "<clinit>" :> Method(FALSE, <<8, 179, 0, 1, 177>>, 0) )]
 @@ "Baz" :>
      [constant_pool |-> ConstantPool,
       fields |-> <<Field("h", <<"L", "F", "o", "o", ";">>, TRUE)>>,
       methods |->
         ( "<clinit>" :> Method(FALSE, <<187, 0, 3, 179, 0, 17, 177>>, 0) )]
 @@ "Qux" :>
      [constant_pool |-> ConstantPool,
       fields |-> <<Field("g", <<"I">>, TRUE)>>,
       methods |-> <<>>]
 @@ "Sys" :>
      [constant_pool |-> ConstantPool,
       fields |-> <<>>,
       methods |-> ( "print" :> Method(TRUE, <<>>, 0) )]
 @@ STRING_CLASS :>
      [constant_pool |-> ConstantPool,
       fields |-> <<Field("value", <<"[", "C">>, FALSE)>>,
       methods |-> <<>>] )

\* Class Main of a program: its main method is put together from fragments.
MainClass(fragments) ==
  [constant_pool |-> ConstantPool,
   fields |-> <<>>,
   methods |-> ("main" :> Method(FALSE, Assemble(fragments), 4)) @@ MainMethods]

(***************************************************************************)
(* The state of the virtual machine.                                       *)
(***************************************************************************)
VARIABLES
  classpath,        \* loaded_classes: the parsed classfiles, by class name
  overflow_checks,  \* the build: TRUE when integer overflow panics (debug)
  status,           \* "dispatch": at the head of the driver loop;
                    \* "step": inside Frame::step on `frame`;
                    \* "finished": the loop was left; "aborted": a panic
  stack,            \* the frame stack of VirtualMachine::start
  frame,            \* the frame popped by the driver and being stepped
  class_statics,    \* CommonDataStore.class_statics
  object_heap,      \* CommonDataStore.object_heap
  output,           \* the lines printed on standard output, after "OUT: "
  panic,            \* the message of the panic that aborted the run
  next_frame_id,    \* number of frames created so far (frame identities)
  frame_info,       \* history: for each frame identity, how it was created
  last,             \* history: what the last turn of a loop did
  finished,         \* history: identities of the frames that have returned
  initialized       \* history: the calls of initialize_class, in order

vars ==
  <<classpath, overflow_checks, status, stack, frame, class_statics,
    object_heap, output, panic, next_frame_id, frame_info, last, finished,
    initialized>>

\* BaseClassLoader::resolve_class (and load_class: every class of the model
\* is a classfile path, loaded by preload_classes): classpath is
\* loaded_classes.
ClassIsLoaded(name) == name \in DOMAIN classpath
resolve_class(name) == classpath[name]

\* ClassFile::maybe_resolve_method: the method of that name, if any.
HasMethod(class_name, name) == name \in DOMAIN classpath[class_name].methods
maybe_resolve_method(class_name, name) == classpath[class_name].methods[name]

\* classfile.constant_pool of a frame's class.
ConstantPoolOf(class_name) == classpath[class_name].constant_pool

NoFrame ==
  [id |-> 0, class |-> "", method |-> "", code_position |-> 0,
   operand_stack |-> <<>>, variables |-> <<>>]

CodeOf(f) == maybe_resolve_method(f.class, f.method).code

(***************************************************************************)
(* What one turn of the loop of Frame::step yields.  kind is "Continue"    *)
(* (the loop goes on), "Ok" (step returns the StepAction `name` with       *)
(* payload `arg`), "Err" (step returns the StepError `name`) or "Panic".   *)
(***************************************************************************)
Continue == [kind |-> "Continue", name |-> "", arg |-> <<>>]
Ok(name, arg) == [kind |-> "Ok", name |-> name, arg |-> arg]
Err(name, arg) == [kind |-> "Err", name |-> name, arg |-> arg]
Panic(msg) == [kind |-> "Panic", name |-> msg, arg |-> <<>>]

\* The machine an instruction works on: the stepped frame, the class-static
\* table and the heap; Out adds what the instruction yields.
Machine(f, cs, h) == [f |-> f, cs |-> cs, h |-> h]
Out(m, r) == [f |-> m.f, cs |-> m.cs, h |-> m.h, r |-> r]

Push(m, v) ==
  [m EXCEPT !.f.operand_stack = Append(@, v)]
Pop(m) ==
  [m EXCEPT !.f.operand_stack = SubSeq(@, 1, Len(@) - 1)]
Top(s) == s[Len(s)]
Advance(m, n) == [m EXCEPT !.f.code_position = @ + n]

\* A variant that steps back twice as far.
reverse_twice(m, steps) == Advance(m, -(2 * steps))

\* A variant that stops one byte short.
reverse_short(m, steps) == Advance(m, -(steps - 1))

\* Codepoint::reverse
reverse(m, steps) == Advance(m, -steps)

(***************************************************************************)
(* CommonDataStore: the class-static table.                                *)
(***************************************************************************)
has_class_statics(cs, class_name) == class_name \in DOMAIN cs

\* HashMap::insert of a fresh ClassStaticInfo: an entry already there is
\* replaced.
register_class(cs, class_name) ==
  [c \in DOMAIN cs \cup {class_name} |->
     IF c = class_name THEN <<>> ELSE cs[c]]

\* A variant in which the first value stored in a field stays.
set_class_static_once(cs, class_name, field_name, value) ==
  [cs EXCEPT ![class_name] =
     [n \in DOMAIN @ \cup {field_name} |->
        IF n = field_name /\ n \notin DOMAIN @ THEN value ELSE @[n]]]

set_class_static(cs, class_name, field_name, value) ==
  [cs EXCEPT ![class_name] =
     [n \in DOMAIN @ \cup {field_name} |->
        IF n = field_name THEN value ELSE @[n]]]

\* A variant that reads a field never written as Int(0).
get_class_static_default(cs, class_name, field_name) ==
  IF class_name \notin DOMAIN cs
  THEN [ok |-> FALSE, error |-> "UninitializedClass", value |-> Empty]
  ELSE IF field_name \notin DOMAIN cs[class_name]
       THEN [ok |-> TRUE, error |-> "", value |-> JInt(0)]
       ELSE [ok |-> TRUE, error |-> "", value |-> cs[class_name][field_name]]

get_class_static(cs, class_name, field_name) ==
  IF class_name \notin DOMAIN cs
  THEN [ok |-> FALSE, error |-> "UninitializedClass", value |-> Empty]
  ELSE IF field_name \notin DOMAIN cs[class_name]
       THEN [ok |-> FALSE, error |-> "StaticFieldNotFound", value |-> Empty]
       ELSE [ok |-> TRUE, error |-> "", value |-> cs[class_name][field_name]]

(***************************************************************************)
(* ObjectHeap.                                                             *)
(***************************************************************************)
EmptyHeap == [current_pointer |-> 0, objects |-> <<>>]

AllocatedObject(class_name, instance_variables) ==
  [kind |-> "Object", class_name |-> class_name,
   instance_variables |-> instance_variables, count |-> 0, store |-> <<>>]

\* An array that is allocated without its elements.
AllocatedArray_empty(count) ==
  [kind |-> "Array", class_name |-> "", instance_variables |-> <<>>,
   count |-> count, store |-> <<>>]

AllocatedArray(count) ==
  [kind |-> "Array", class_name |-> "", instance_variables |-> <<>>,
   count |-> count, store |-> [i \in 1..count |-> Null]]

Insert(objects, pointer, allocation) ==
  [p \in DOMAIN objects \cup {pointer} |->
     IF p = pointer THEN allocation ELSE objects[p]]

\* The default value allocate_object gives a field of that descriptor.
DefaultValueKnown(descriptor) == descriptor[1] \in {"I", "L", "["}
\* A default of Int(0) whatever the descriptor.
DefaultValue_zero(descriptor) == JInt(0)

DefaultValue(descriptor) == IF descriptor[1] = "I" THEN JInt(0) ELSE Null

InstanceFields(class) ==
  {i \in 1..Len(class.fields) : ~class.fields[i].static}

\* allocate_object panics on a field of another type.
CanAllocateObject(class) ==
  \A i \in InstanceFields(class) : DefaultValueKnown(class.fields[i].descriptor)

allocate_object(h, class_name) ==
  LET class == resolve_class(class_name)
      names == {class.fields[i].name : i \in InstanceFields(class)}
      object ==
        AllocatedObject(class_name,
          [n \in names |->
             LET i == CHOOSE j \in InstanceFields(class) :
                        /\ class.fields[j].name = n
                        /\ \A k \in InstanceFields(class) :
                             class.fields[k].name = n => k <= j
             IN DefaultValue(class.fields[i].descriptor)])
  IN [current_pointer |-> h.current_pointer + 1,
      objects |-> Insert(h.objects, h.current_pointer, object)]

\* A variant that does not advance the pointer.
allocate_array_in_place(h, count) ==
  [current_pointer |-> h.current_pointer,
   objects |-> Insert(h.objects, h.current_pointer, AllocatedArray(count))]

allocate_array(h, count) ==
  [current_pointer |-> h.current_pointer + 1,
   objects |-> Insert(h.objects, h.current_pointer, AllocatedArray(count))]

\* ObjectHeap::get with resolve_pointer: a value that is no Reference panics,
\* a handle that was never allocated is InvalidPointer.
HeapGet(h, pointer) ==
  IF pointer.t # "Reference"
  THEN [kind |-> "Panic", error |-> "Unexpected JavaType"]
  ELSE IF pointer.v \notin DOMAIN h.objects
       THEN [kind |-> "Err", error |-> "InvalidPointer"]
       ELSE [kind |-> "Ok", error |-> ""]

get_object(h, pointer) ==
  LET g == HeapGet(h, pointer) IN
  IF g.kind # "Ok" THEN g
  ELSE IF h.objects[pointer.v].kind # "Object"
       THEN [kind |-> "Err", error |-> "UnexpectedHeapType"]
       ELSE g

get_array(h, pointer) ==
  LET g == HeapGet(h, pointer) IN
  IF g.kind # "Ok" THEN g
  ELSE IF h.objects[pointer.v].kind # "Array"
       THEN [kind |-> "Err", error |-> "UnexpectedHeapType"]
       ELSE g

get_field(h, pointer, field_name) ==
  LET g == get_object(h, pointer) IN
  IF g.kind # "Ok" THEN g
  ELSE IF field_name \notin DOMAIN h.objects[pointer.v].instance_variables
       THEN [kind |-> "Err", error |-> "FieldNotFound"]
       ELSE g

\* set_field on an object that get_object_mut found.
\* A set_field that stores nothing.
set_field_nowhere(h, pointer, field_name, value) == h

set_field(h, pointer, field_name, value) ==
  [h EXCEPT !.objects[pointer.v].instance_variables =
     [n \in DOMAIN @ \cup {field_name} |->
        IF n = field_name THEN value ELSE @[n]]]

(***************************************************************************)
(* Frame: decoding of operands and typed pops.                             *)
(***************************************************************************)
\* retrieve_and_advance!: the code byte at the code pointer, which advances
\* whether or not there is one.
retrieve_and_advance(m) ==
  LET p == m.f.code_position
      code == CodeOf(m.f)
      found == p >= 0 /\ p < Len(code)
  IN [ok |-> found,
      value |-> IF found THEN code[p + 1] ELSE 0,
      m |-> Advance(m, 1),
      r |-> IF found THEN Continue
            ELSE Err("CodeIndexOutOfBounds", p + 1)]

next_opcode_entry_u1(m) == retrieve_and_advance(m)

\* The two retrieve_and_advance! of next_opcode_entry_u2 and
\* next_opcode_entry_i16: the second is not reached when the first fails.
RetrieveTwo(m) ==
  LET p == m.f.code_position
      size == Len(CodeOf(m.f))
  IN IF p < 0 \/ p >= size
     THEN [ok |-> FALSE, one |-> 0, two |-> 0, m |-> Advance(m, 1),
           r |-> Err("CodeIndexOutOfBounds", p + 1)]
     ELSE IF p + 1 >= size
          THEN [ok |-> FALSE, one |-> 0, two |-> 0, m |-> Advance(m, 2),
                r |-> Err("CodeIndexOutOfBounds", p + 2)]
          ELSE [ok |-> TRUE, one |-> CodeOf(m.f)[p + 1],
                two |-> CodeOf(m.f)[p + 2], m |-> Advance(m, 2),
                r |-> Continue]

\* (index_one << 8) | index_two, in u16
U16(e) == [ok |-> e.ok, value |-> (e.one * 256 + e.two) % 65536, m |-> e.m,
           r |-> e.r]
next_opcode_entry_u2(m) == U16(RetrieveTwo(m))

\* (index_one << 8) | index_two, in i16
I16(e) == [ok |-> e.ok, value |-> Wrap(e.one * 256 + e.two, 16), m |-> e.m,
           r |-> e.r]
next_opcode_entry_i16(m) == I16(RetrieveTwo(m))

\* calculate_offset: the branch offset less the three bytes of the
\* instruction, in 16 bits.
Offset(e) ==
  IF ~e.ok THEN e
  ELSE IF InRange(e.value - 3, 16) THEN [e EXCEPT !.value = @ - 3]
       ELSE IF overflow_checks
            THEN [e EXCEPT !.ok = FALSE,
                           !.r = Panic("attempt to subtract with overflow")]
            ELSE [e EXCEPT !.value = Wrap(@ - 3, 16)]
calculate_offset(m) == Offset(next_opcode_entry_i16(m))

\* pop_operand!: pops, and panics on an empty operand stack.
pop_operand(m) ==
  IF m.f.operand_stack = <<>>
  THEN [ok |-> FALSE, value |-> Empty, m |-> m,
        r |-> Panic("Operand stack was unexpectedly empty")]
  ELSE [ok |-> TRUE, value |-> Top(m.f.operand_stack), m |-> Pop(m),
        r |-> Continue]

\* generate_javatype_pop_method!: pops a value of the variant `variant`.
pop_typed(m, variant) ==
  IF m.f.operand_stack = <<>>
  THEN [ok |-> FALSE, value |-> 0, m |-> m,
        r |-> Err("UnexpectedEmptyVec", <<>>)]
  ELSE LET item == Top(m.f.operand_stack) IN
       IF item.t = variant
       THEN [ok |-> TRUE, value |-> item.v, m |-> Pop(m), r |-> Continue]
       ELSE [ok |-> FALSE, value |-> 0, m |-> Pop(m),
             r |-> Err("UnexpectedJavaType", item.t)]

pop_int(m) == pop_typed(m, "Int")
pop_long(m) == pop_typed(m, "Long")

\* generate_javatype_retrieval_method!(Int, i32, retrieve_int).
retrieve_int(index, item_vec) ==
  IF index + 1 > Len(item_vec)
  THEN [ok |-> FALSE, value |-> 0, r |-> Err("UnexpectedEmptyVec", <<>>)]
  ELSE IF item_vec[index + 1].t = "Int"
       THEN [ok |-> TRUE, value |-> item_vec[index + 1].v, r |-> Continue]
       ELSE [ok |-> FALSE, value |-> 0,
             r |-> Err("UnexpectedJavaType", item_vec[index + 1].t)]

\* The arguments of an instance invocation: each popped value goes to the
\* front, so the deepest popped value is args[0].
RECURSIVE build_arguments(_, _)
build_arguments(count, operand_stack) ==
  IF count = 0 THEN <<>>
  ELSE build_arguments(count - 1,
                       SubSeq(operand_stack, 1, Len(operand_stack) - 1))
       \o <<Top(operand_stack)>>

\* The arguments of a static invocation: each popped value goes to the
\* back, so the top of the operand stack is args[0].
RECURSIVE build_static_arguments(_, _)
build_static_arguments(count, operand_stack) ==
  IF count = 0 THEN <<>>
  ELSE <<Top(operand_stack)>>
       \o build_static_arguments(count - 1,
                                 SubSeq(operand_stack, 1,
                                        Len(operand_stack) - 1))

\* Truncating division of Rust's `/`.
\* (MinInt32 / -1 overflows and is excluded by the caller.)
TruncDiv(a, b) ==
  IF b = MinInt32 THEN (IF a = MinInt32 THEN 1 ELSE 0)
  ELSE IF a = MinInt32
       THEN IF b = 1 THEN a
            ELSE LET q == ((MaxInt32 - (Abs(b) - 1)) \div Abs(b)) + 1
                 IN IF b > 0 THEN -q ELSE q
       ELSE LET q == Abs(a) \div Abs(b)
            IN IF (a < 0) = (b < 0) THEN q ELSE -q

\* The arithmetic of iadd/isub/imul/idiv (w = 32) and ladd/lsub/lmul/ldiv
\* (w = 64) on `left`, the value popped first, and `right`.
Overflows(kind, left, right, w) ==
  /\ w = 32
  /\ CASE kind = "add" -> AddOverflows(left, right)
       [] kind = "sub" -> SubOverflows(left, right)
       [] kind = "mul" -> MulOverflows(left, right)
       [] OTHER -> left = MinInt32 /\ right = -1

Wrapping(kind, left, right, w) ==
  IF w = 32
  THEN CASE kind = "add" -> WrappingAdd(left, right)
         [] kind = "sub" -> WrappingSub(left, right)
         [] OTHER -> WrappingMul(left, right)
  ELSE CASE kind = "add" -> left + right
         [] kind = "sub" -> left - right
         [] OTHER -> left * right

Arithmetic(kind, left, right, w) ==
  IF kind = "div"
  THEN IF right = 0
       THEN [ok |-> FALSE, value |-> 0,
             r |-> Panic("attempt to divide by zero")]
       ELSE IF Overflows(kind, left, right, w)
            THEN [ok |-> FALSE, value |-> 0,
                  r |-> Panic("attempt to divide with overflow")]
            ELSE [ok |-> TRUE, value |-> TruncDiv(left, right),
                  r |-> Continue]
  ELSE IF Overflows(kind, left, right, w) /\ overflow_checks
       THEN [ok |-> FALSE, value |-> 0,
             r |-> Panic("arithmetic operation overflowed")]
       ELSE [ok |-> TRUE, value |-> Wrapping(kind, left, right, w),
             r |-> Continue]

ArithmeticKind(opcode) ==
  CASE opcode \in {96, 97} -> "add"
    [] opcode \in {100, 101} -> "sub"
    [] opcode \in {104, 105} -> "mul"
    [] OTHER -> "div"

(***************************************************************************)
(* Frame::step: the instructions.  Each operator takes the machine with    *)
(* the code pointer already past the opcode byte and yields the machine    *)
(* after the instruction together with what the turn of the loop yields.   *)
(***************************************************************************)
\* iconst_0 .. iconst_5
op_iconst(m, n) == Out(Push(m, JInt(n)), Continue)

\* bipush
op_bipush(m) ==
  LET e == next_opcode_entry_u1(m) IN
  IF ~e.ok THEN Out(e.m, e.r) ELSE Out(Push(e.m, JInt(e.value)), Continue)

\* ldc
op_ldc(m) ==
  LET e == next_opcode_entry_u1(m)
      pool == ConstantPoolOf(m.f.class)
  IN IF ~e.ok THEN Out(e.m, e.r)
     ELSE IF e.value \notin DOMAIN pool THEN Out(e.m, Err("Parser", e.value))
     ELSE IF pool[e.value].tag = "String"
          THEN Out(e.m, Ok("AllocateString", pool[e.value].contents))
          ELSE IF pool[e.value].tag = "Integer"
               THEN Out(Push(e.m,
                             JInt(Wrap(pool[e.value].bytes[1], 16) * 65536
                                  + pool[e.value].bytes[2])),
                        Continue)
               ELSE Out(e.m,
                        Err("UnexpectedConstantPoolItem", pool[e.value].tag))

\* ldc2_w
op_ldc2_w(m) ==
  LET e == next_opcode_entry_u2(m)
      pool == ConstantPoolOf(m.f.class)
  IN IF ~e.ok THEN Out(e.m, e.r)
     ELSE IF e.value \notin DOMAIN pool THEN Out(e.m, Err("Parser", e.value))
     ELSE IF pool[e.value].tag = "Long"
          THEN LET value == pool[e.value].high_bytes * 65536 * 65536
                            + pool[e.value].low_bytes
               IN Out(Push(Push(e.m, JLong(value)), Filler), Continue)
          ELSE Out(e.m, Err("UnexpectedConstantPoolItem", pool[e.value].tag))

\* iload_n, lload_n, aload_n: JavaType::load(index, variables)
op_load(m, index) ==
  IF index + 1 > Len(m.f.variables)
  THEN Out(m, Panic("Expected vec to contain item at index"))
  ELSE Out(Push(m, m.f.variables[index + 1]), Continue)

\* The array element index of iaload and iastore: `index as usize`.
InBounds(array, index) == index >= 0 /\ index < Len(array.store)

\* iaload
op_iaload(m) ==
  LET i == pop_int(m) IN
  IF ~i.ok THEN Out(i.m, i.r)
  ELSE LET a == pop_operand(i.m) IN
       IF ~a.ok THEN Out(a.m, a.r)
       ELSE LET g == get_array(a.m.h, a.value) IN
            IF g.kind = "Panic" THEN Out(a.m, Panic(g.error))
            ELSE IF g.kind = "Err" THEN Out(a.m, Err("DataStore", g.error))
            ELSE IF ~InBounds(a.m.h.objects[a.value.v], i.value)
                 THEN Out(a.m, Panic("index out of bounds"))
                 ELSE Out(Push(a.m,
                               a.m.h.objects[a.value.v].store[i.value + 1]),
                          Continue)

\* istore_1, istore_2: variables[index] = pop_operand!(..)
op_istore(m, index) ==
  LET v == pop_operand(m) IN
  IF ~v.ok THEN Out(v.m, v.r)
  ELSE IF index + 1 > Len(m.f.variables)
       THEN Out(v.m, Panic("index out of bounds"))
       ELSE Out([v.m EXCEPT !.f.variables[index + 1] = v.value], Continue)

\* astore_1: variables.insert(1, pop_operand!(..))
op_astore_1(m) ==
  LET v == pop_operand(m) IN
  IF ~v.ok THEN Out(v.m, v.r)
  ELSE IF Len(m.f.variables) < 1
       THEN Out(v.m, Panic("insertion index is out of bounds"))
       ELSE Out([v.m EXCEPT !.f.variables =
                   <<@[1], v.value>> \o SubSeq(@, 2, Len(@))],
                Continue)

\* An iastore that pops its operands and stores nothing.
op_iastore_dropping(m) ==
  LET v == pop_operand(m) IN
  IF ~v.ok THEN Out(v.m, v.r)
  ELSE LET i == pop_int(v.m) IN
       IF ~i.ok THEN Out(i.m, i.r)
       ELSE LET a == pop_operand(i.m) IN
            IF ~a.ok THEN Out(a.m, a.r) ELSE Out(a.m, Continue)

\* iastore
op_iastore(m) ==
  LET v == pop_operand(m) IN
  IF ~v.ok THEN Out(v.m, v.r)
  ELSE LET i == pop_int(v.m) IN
       IF ~i.ok THEN Out(i.m, i.r)
       ELSE LET a == pop_operand(i.m) IN
            IF ~a.ok THEN Out(a.m, a.r)
            ELSE LET g == get_array(a.m.h, a.value) IN
                 IF g.kind = "Panic" THEN Out(a.m, Panic(g.error))
                 ELSE IF g.kind = "Err"
                      THEN Out(a.m, Err("DataStore", g.error))
                 ELSE IF ~InBounds(a.m.h.objects[a.value.v], i.value)
                      THEN Out(a.m, Panic("index out of bounds"))
                      ELSE Out([a.m EXCEPT
                                  !.h.objects[a.value.v].store[i.value + 1] =
                                    v.value],
                               Continue)

\* dup
op_dup(m) ==
  LET v == pop_operand(m) IN
  IF ~v.ok THEN Out(v.m, v.r)
  ELSE Out(Push(Push(v.m, v.value), v.value), Continue)

\* iadd | isub | imul | idiv
op_iarithmetic(m, opcode) ==
  LET left == pop_int(m) IN
  IF ~left.ok THEN Out(left.m, left.r)
  ELSE LET right == pop_int(left.m) IN
       IF ~right.ok THEN Out(right.m, right.r)
       ELSE LET result == Arithmetic(ArithmeticKind(opcode), left.value,
                                     right.value, 32)
            IN IF ~result.ok THEN Out(right.m, result.r)
               ELSE Out(Push(right.m, JInt(result.value)), Continue)

\* ladd | lsub | lmul | ldiv
op_larithmetic(m, opcode) ==
  LET left == pop_long(m) IN
  IF ~left.ok THEN Out(left.m, left.r)
  ELSE LET right == pop_long(left.m) IN
       IF ~right.ok THEN Out(right.m, right.r)
       ELSE LET result == Arithmetic(ArithmeticKind(opcode), left.value,
                                     right.value, 64)
            IN IF ~result.ok THEN Out(right.m, result.r)
               ELSE Out(Push(Push(right.m, JLong(result.value)), Filler),
                        Continue)

\* iinc
op_iinc(m) ==
  LET index == next_opcode_entry_u1(m) IN
  IF ~index.ok THEN Out(index.m, index.r)
  ELSE LET const_value == next_opcode_entry_u1(index.m) IN
       IF ~const_value.ok THEN Out(const_value.m, const_value.r)
       ELSE LET current_value ==
                  retrieve_int(index.value, const_value.m.f.variables)
            IN IF ~current_value.ok
               THEN Out(const_value.m, current_value.r)
               ELSE LET result == Arithmetic("add", current_value.value,
                                             const_value.value, 32)
                    IN IF ~result.ok THEN Out(const_value.m, result.r)
                       ELSE Out([const_value.m EXCEPT
                                   !.f.variables[index.value + 1] =
                                     JInt(result.value)],
                                Continue)

\* An i2b that keeps every bit of the Int.
op_i2b_wide(m) ==
  LET int_val == pop_int(m) IN
  IF ~int_val.ok THEN Out(int_val.m, int_val.r)
  ELSE Out(Push(int_val.m, JByte(int_val.value)), Continue)

\* i2b
op_i2b(m) ==
  LET int_val == pop_int(m) IN
  IF ~int_val.ok THEN Out(int_val.m, int_val.r)
  ELSE Out(Push(int_val.m, JByte(Wrap(int_val.value, 8))), Continue)

\* if_icmpge taken only when its first value is greater than its second.
op_if_icmpge_strict(m) ==
  LET value_2 == pop_int(m) IN
  IF ~value_2.ok THEN Out(value_2.m, value_2.r)
  ELSE LET value_1 == pop_int(value_2.m) IN
       IF ~value_1.ok THEN Out(value_1.m, value_1.r)
       ELSE LET offset == calculate_offset(value_1.m) IN
            IF ~offset.ok THEN Out(offset.m, offset.r)
            ELSE IF value_1.value > value_2.value
                 THEN Out(Advance(offset.m, offset.value), Continue)
                 ELSE Out(offset.m, Continue)

\* if_icmpge
op_if_icmpge(m) ==
  LET value_2 == pop_int(m) IN
  IF ~value_2.ok THEN Out(value_2.m, value_2.r)
  ELSE LET value_1 == pop_int(value_2.m) IN
       IF ~value_1.ok THEN Out(value_1.m, value_1.r)
       ELSE LET offset == calculate_offset(value_1.m) IN
            IF ~offset.ok THEN Out(offset.m, offset.r)
            ELSE IF value_1.value >= value_2.value
                 THEN Out(Advance(offset.m, offset.value), Continue)
                 ELSE Out(offset.m, Continue)

\* goto
op_goto(m) ==
  LET offset == calculate_offset(m) IN
  IF ~offset.ok THEN Out(offset.m, offset.r)
  ELSE Out(Advance(offset.m, offset.value), Continue)

\* ireturn | areturn
op_return_value(m) ==
  LET v == pop_operand(m) IN
  IF ~v.ok THEN Out(v.m, v.r) ELSE Out(v.m, Ok("ReturnValue", v.value))

\* return
op_return(m) == Out(m, Ok("EndOfMethod", <<>>))

\* Resolver::resolve_field_info / resolve_method_info and
\* ConstantPoolItem::retrieve_class_info: the constant-pool item at `index`
\* when it has the tag asked for, and a parser error otherwise.
Resolves(m, index, tag) ==
  LET pool == ConstantPoolOf(m.f.class) IN
  index \in DOMAIN pool /\ pool[index].tag = tag
PoolItem(m, index) == ConstantPoolOf(m.f.class)[index]

\* getstatic | putstatic
op_static(m, opcode) ==
  LET index == next_opcode_entry_u2(m) IN
  IF ~index.ok THEN Out(index.m, index.r)
  ELSE IF ~Resolves(m, index.value, "Fieldref")
       THEN Out(index.m, Err("Parser", index.value))
  ELSE LET field == PoolItem(m, index.value) IN
       IF ~has_class_statics(m.cs, field.class_name)
       THEN Out(reverse(index.m, 3), Ok("InitializeClass", field.class_name))
       ELSE IF opcode = 178
            THEN LET field_value ==
                       get_class_static(m.cs, field.class_name, field.name)
                 IN IF ~field_value.ok
                    THEN Out(index.m, Err("DataStore", field_value.error))
                    ELSE Out(Push(index.m, field_value.value), Continue)
            ELSE LET v == pop_operand(index.m) IN
                 IF ~v.ok THEN Out(v.m, v.r)
                 ELSE Out([v.m EXCEPT !.cs =
                             set_class_static(@, field.class_name, field.name,
                                              v.value)],
                          Continue)

\* getfield | putfield
op_field(m, opcode) ==
  LET index == next_opcode_entry_u2(m) IN
  IF ~index.ok THEN Out(index.m, index.r)
  ELSE IF ~Resolves(m, index.value, "Fieldref")
       THEN Out(index.m, Err("Parser", index.value))
  ELSE LET field == PoolItem(m, index.value) IN
       IF opcode = 180
       THEN LET reference == pop_operand(index.m) IN
            IF ~reference.ok THEN Out(reference.m, reference.r)
            ELSE LET g == get_field(m.h, reference.value, field.name) IN
                 IF g.kind = "Panic" THEN Out(reference.m, Panic(g.error))
                 ELSE IF g.kind = "Err"
                      THEN Out(reference.m, Err("DataStore", g.error))
                      ELSE Out(Push(reference.m,
                                    m.h.objects[reference.value.v]
                                      .instance_variables[field.name]),
                               Continue)
       ELSE LET value == pop_operand(index.m) IN
            IF ~value.ok THEN Out(value.m, value.r)
            ELSE LET reference == pop_operand(value.m) IN
                 IF ~reference.ok THEN Out(reference.m, reference.r)
                 ELSE IF get_object(m.h, reference.value).kind # "Ok"
                      THEN Out(reference.m, Panic("Unable to find instance"))
                      ELSE Out([reference.m EXCEPT !.h =
                                  set_field(@, reference.value, field.name,
                                            value.value)],
                               Continue)

\* The payload of the three Invoke* step actions.
Invocation(method, args) ==
  [class_name |-> method.class_name, name |-> method.name,
   descriptor |-> method.descriptor, args |-> args]

DropLast(s, n) == SubSeq(s, 1, Len(s) - n)

\* invokevirtual | invokespecial
op_invoke_instance(m, opcode) ==
  LET index == next_opcode_entry_u2(m) IN
  IF ~index.ok THEN Out(index.m, index.r)
  ELSE IF ~Resolves(m, index.value, "Methodref")
       THEN Out(index.m, Err("Parser", index.value))
  ELSE LET method == PoolItem(m, index.value)
           counted == determine_number_of_arguments(method.descriptor)
           argument_count == counted + 1
       IN IF counted < 0
          THEN Out(index.m, Panic("Unknown descriptor character"))
          ELSE IF Len(m.f.operand_stack) < argument_count
               THEN Out(index.m, Panic("Operand stack was unexpectedly empty"))
               ELSE Out([index.m EXCEPT !.f.operand_stack =
                           DropLast(@, argument_count)],
                        Ok(IF opcode = 182 THEN "InvokeVirtualMethod"
                           ELSE "InvokeSpecialMethod",
                           Invocation(method,
                                      build_arguments(argument_count,
                                                      m.f.operand_stack))))

\* invokestatic
op_invokestatic(m) ==
  LET index == next_opcode_entry_u2(m) IN
  IF ~index.ok THEN Out(index.m, index.r)
  ELSE IF ~Resolves(m, index.value, "Methodref")
       THEN Out(index.m, Err("Parser", index.value))
  ELSE LET method == PoolItem(m, index.value)
           argument_count == determine_number_of_arguments(method.descriptor)
       IN IF argument_count < 0
          THEN Out(index.m, Panic("Unknown descriptor character"))
          ELSE IF Len(m.f.operand_stack) < argument_count
               THEN Out(index.m, Panic("Operand stack was unexpectedly empty"))
               ELSE Out([index.m EXCEPT !.f.operand_stack =
                           DropLast(@, argument_count)],
                        Ok("InvokeStaticMethod",
                           Invocation(method,
                                      build_static_arguments(
                                        argument_count, m.f.operand_stack))))

\* new
op_new(m) ==
  LET index == next_opcode_entry_u2(m) IN
  IF ~index.ok THEN Out(index.m, index.r)
  ELSE IF ~Resolves(m, index.value, "Class")
       THEN Out(index.m, Err("Parser", index.value))
       ELSE Out(index.m,
                Ok("AllocateClass", PoolItem(m, index.value).class_name))

\* newarray
op_newarray(m) ==
  LET count == pop_int(m) IN
  IF ~count.ok THEN Out(count.m, count.r)
  ELSE LET type == next_opcode_entry_u1(count.m) IN
       IF ~type.ok THEN Out(type.m, type.r)
       ELSE Out(type.m, Ok("AllocateArray", count.value))

\* arraylength
op_arraylength(m) ==
  LET array_ref == pop_operand(m) IN
  IF ~array_ref.ok THEN Out(array_ref.m, array_ref.r)
  ELSE LET g == get_array(m.h, array_ref.value) IN
       IF g.kind = "Panic" THEN Out(array_ref.m, Panic(g.error))
       ELSE IF g.kind = "Err" THEN Out(array_ref.m, Err("DataStore", g.error))
       ELSE Out(Push(array_ref.m, JInt(m.h.objects[array_ref.value.v].count)),
                Continue)

\* The code pointer is on an opcode: `code.get(code_position.current())`.
HasOpcode(f) == f.code_position >= 0 /\ f.code_position < Len(CodeOf(f))
OpcodeAt(f) == CodeOf(f)[f.code_position + 1]

\* One turn of the `while let Some(opcode)` loop of Frame::step, and the
\* error that follows the loop when the code pointer is on no opcode.
Execute(m0) ==
  IF ~HasOpcode(m0.f)
  THEN IF m0.f.code_position = 0 /\ overflow_checks
       THEN Out(m0, Panic("attempt to subtract with overflow"))
       ELSE Out(m0, Err("CodeIndexOutOfBounds", m0.f.code_position - 1))
  ELSE
  LET opcode == OpcodeAt(m0.f)
      m == Advance(m0, 1)
  IN CASE opcode \in 3..8 -> op_iconst(m, opcode - 3)
       [] opcode = 16 -> op_bipush(m)
       [] opcode = 18 -> op_ldc(m)
       [] opcode = 20 -> op_ldc2_w(m)
       [] opcode \in 26..28 -> op_load(m, opcode - 26)
       [] opcode = 30 -> op_load(m, 1)
       [] opcode = 32 -> op_load(m, 3)
       [] opcode \in 42..43 -> op_load(m, opcode - 42)
       [] opcode = 46 -> op_iaload(m)
       [] opcode \in 60..61 -> op_istore(m, opcode - 59)
       [] opcode = 76 -> op_astore_1(m)
       [] opcode = 79 -> op_iastore(m)
       [] opcode = 89 -> op_dup(m)
       [] opcode \in {96, 100, 104, 108} -> op_iarithmetic(m, opcode)
       [] opcode \in {97, 101, 105, 109} -> op_larithmetic(m, opcode)
       [] opcode = 132 -> op_iinc(m)
       [] opcode = 145 -> op_i2b(m)
       [] opcode = 162 -> op_if_icmpge(m)
       [] opcode = 167 -> op_goto(m)
       [] opcode \in {172, 176} -> op_return_value(m)
       [] opcode = 177 -> op_return(m)
       [] opcode \in {178, 179} -> op_static(m, opcode)
       [] opcode \in {180, 181} -> op_field(m, opcode)
       [] opcode \in {182, 183} -> op_invoke_instance(m, opcode)
       [] opcode = 184 -> op_invokestatic(m)
       [] opcode = 187 -> op_new(m)
       [] opcode = 188 -> op_newarray(m)
       [] opcode = 190 -> op_arraylength(m)
       [] OTHER -> Out(m, Err("UnknownOpcode", opcode))

(***************************************************************************)
(* Frame::new and the helpers of the driver.                               *)
(***************************************************************************)
\* Frame::new panics when the method has no Code attribute and when more
\* arguments are provided than the method has locals.
CanCreateFrame(class_name, method_name, provided_variables) ==
  LET method == maybe_resolve_method(class_name, method_name) IN
  method.has_code /\ Len(provided_variables) <= method.max_locals

NewFrame(id, class_name, method_name, provided_variables) ==
  LET method == maybe_resolve_method(class_name, method_name) IN
  [id |-> id, class |-> class_name, method |-> method_name,
   code_position |-> 0,
   operand_stack |-> <<>>,
   variables |->
     [i \in 1..method.max_locals |->
        IF i <= Len(provided_variables) THEN provided_variables[i]
        ELSE Empty]]

\* A push of the value twice over.
push_operand_stack_value_twice(f, value) ==
  [f EXCEPT !.operand_stack = Append(Append(@, value), value)]

push_operand_stack_value(f, value) ==
  [f EXCEPT !.operand_stack = Append(@, value)]

\* VirtualMachine::initialize_class: registers the class and pushes a frame
\* for its <clinit>, if it has one, on the frame stack as it is then.
RunsClinit(class_name) == HasMethod(class_name, "<clinit>")

\* A variant that slips the <clinit> frame beneath the top frame.
initialize_class_beneath(cs, stk, class_name, id) ==
  [cs |-> register_class(cs, class_name),
   stack |-> IF ~RunsClinit(class_name) THEN stk
             ELSE IF stk = <<>>
                  THEN <<NewFrame(id, class_name, "<clinit>", <<>>)>>
                  ELSE Append(Append(SubSeq(stk, 1, Len(stk) - 1),
                                     NewFrame(id, class_name, "<clinit>", <<>>)),
                              stk[Len(stk)])]

initialize_class(cs, stk, class_name, id) ==
  [cs |-> register_class(cs, class_name),
   stack |-> IF RunsClinit(class_name)
             THEN Append(stk, NewFrame(id, class_name, "<clinit>", <<>>))
             ELSE stk]

\* The decimal digits of n >= 0, and the text `{}` prints for an integer,
\* as character codes.
RECURSIVE Digits(_)
Digits(n) == IF n < 10 THEN <<48 + n>> ELSE Digits(n \div 10) \o <<48 + (n % 10)>>
Decimal(n) ==
  IF n >= 0 THEN Digits(n)
  ELSE LET m == -(n + 1)  \* |n| - 1, which is within i32 for every n
           high == (m \div 10) + (IF m % 10 = 9 THEN 1 ELSE 0)
           low == ((m % 10) + 1) % 10
       IN <<45>> \o (IF high = 0 THEN <<>> ELSE Digits(high)) \o <<48 + low>>

\* The native print of call_static_method on the arguments of the call:
\* the line printed, or the panic.
NativePrint(h, args) ==
  IF args = <<>>
  THEN [ok |-> FALSE, line |-> <<>>, panic |-> "called unwrap on None"]
  ELSE
  LET item == Top(args) IN
  IF item.t \in {"Int", "Byte", "Long"}
  THEN [ok |-> TRUE, line |-> Decimal(item.v), panic |-> ""]
  ELSE IF item.t # "Reference"
  THEN [ok |-> FALSE, line |-> <<>>, panic |-> "Unexpected variable"]
  ELSE IF get_object(h, item).kind # "Ok"
  THEN [ok |-> FALSE, line |-> <<>>,
        panic |-> "Unable to retrieve referenced object"]
  ELSE
  LET object == h.objects[item.v] IN
  IF object.class_name # STRING_CLASS
  THEN [ok |-> FALSE, line |-> <<>>,
        panic |-> "Unexpected class provided to print"]
  ELSE IF "value" \notin DOMAIN object.instance_variables
  THEN [ok |-> FALSE, line |-> <<>>,
        panic |-> "Unable to retrieve array reference from String"]
  ELSE
  LET value_reference == object.instance_variables["value"] IN
  IF get_array(h, value_reference).kind # "Ok"
  THEN [ok |-> FALSE, line |-> <<>>,
        panic |-> "Unable to retrieve referenced array"]
  ELSE
  LET store == h.objects[value_reference.v].store IN
  IF \E i \in 1..Len(store) : store[i].t # "Char"
  THEN [ok |-> FALSE, line |-> <<>>, panic |-> "Unexpected Java type"]
  ELSE [ok |-> TRUE, line |-> [i \in 1..Len(store) |-> store[i].v],
        panic |-> ""]

\* The String the AllocateString handler builds on the heap: the array of
\* its characters, then the object whose `value` field refers to the array.
AllocateStringOnHeap(h, contents) ==
  LET value_array_pointer == h.current_pointer
      h1 == allocate_array(h, Len(contents))
      h2 == [h1 EXCEPT !.objects[value_array_pointer].store =
               [i \in 1..Len(contents) |-> JChar(contents[i])]]
      string_pointer == h2.current_pointer
      h3 == allocate_object(h2, STRING_CLASS)
  IN [heap |-> set_field(h3, Reference(string_pointer), "value",
                         Reference(value_array_pointer)),
      pointer |-> string_pointer]

(***************************************************************************)
(* The programs the virtual machine is started on.                         *)
(***************************************************************************)
SeqsUpTo(S, n) == UNION {[1..k -> S] : k \in 0..n}

\* Fragments of the main methods that exercise class initialization,
\* allocation and method invocation.
DriverFragments ==
  {"new_Foo", "putstatic_Bar_f", "getstatic_Bar_f", "getstatic_Foo_x",
   "getstatic_Baz_h", "call_two", "call_mk", "call_get", "print_int"}

Program(fragments) == ("Main" :> MainClass(fragments)) @@ LibraryClasses

\* Fragments that end before the operand bytes of their instruction do.
CutFragments ==
  {"bipush_cut", "ldc_cut", "ldc2_w_cut", "iinc_cut", "if_icmpge_cut",
   "goto_cut", "getstatic_cut", "putfield_cut", "invokevirtual_cut",
   "invokestatic_cut", "new_cut", "newarray_cut"}

\* Main methods that between them reach every instruction handler of the
\* driver, and main methods whose last instruction is cut short.
BasePrograms ==
  {<<f>> : f \in CutFragments}
  \cup {<<"iconst_1", "iconst_0", f>> : f \in CutFragments}
  \cup
  { <<"ldc_string", "print_string", "return">>,
    <<"iconst_4", "print_int", "putstatic_Qux_g", "return">>,
    <<"new_Foo", "call_init", "return">>,
    <<"new_Foo", "call_sum", "return">>,
    <<"new_Foo", "call_name", "return">>,
    <<"iconst_4", "newarray", "return">>,
    <<"new_Foo", "astore_1", "new_Foo", "return">>,
    <<"goto_7", "getstatic_Bar_f", "return", "iconst_1", "iconst_0",
      "if_icmpge_back_6">>,
    <<"iconst_4", "istore_1", "iload_1", "print_int", "return">>,
    <<"ldc2_w_1", "ldc2_w_2", "ladd", "print_long", "return">>,
    <<"call_rec", "return">>,
    <<"ldc_string", "print_int_virtual", "return">>,
    <<"call_arr", "return">>,
    <<"getstatic_Qux_g", "return">>,
    <<"far_branch_back">>,
    <<"far_untaken_branch">>,
    <<"loop_print_3">>,
    <<"iconst_2", "iconst_3", "iadd", "i2b", "print_byte", "return">>,
    <<"bipush_200", "i2b", "print_byte", "return">>,
    <<"iconst_4", "istore_1", "iconst_1", "ldc_minus_7", "i2b", "print_byte",
      "return">>,
    <<"ldc_string", "ldc_max", "i2b", "print_byte", "return">>,
    <<"iconst_4", "istore_2", "iconst_5", "istore_1", "return">>,
    <<"iconst_5", "iconst_2", "isub", "print_int", "return">>,
    <<"iconst_4", "iconst_2", "idiv", "print_int", "return">>,
    <<"iconst_4", "newarray", "arraylength", "print_int", "return">>,
    <<"iconst_0", "newarray", "arraylength", "print_int", "return">>,
    <<"iconst_4", "newarray", "iconst_2", "iaload", "print_int", "return">>,
    <<"bipush_5", "newarray", "dup", "iconst_2", "bipush_9", "iastore",
      "iconst_2", "iaload", "print_int", "return">>,
    <<"ldc_string", "bipush_5", "newarray", "dup", "dup", "iconst_0",
      "iconst_4", "iastore", "iconst_2", "bipush_9", "iastore", "iconst_0",
      "iaload", "print_int", "return">>,
    <<"iconst_1", "newarray", "iconst_1", "iconst_0", "iastore", "return">>,
    <<"ldc_minus_7", "newarray", "return">>,
    <<"istore_1", "return">>,
    <<"iconst_4", "pop", "return">>,
    <<"iconst_4", "newarray", "getfield_Foo_n", "return">>,
    <<"iconst_4", "newarray", "iconst_4", "putfield_Foo_n", "return">>,
    <<"new_Foo", "iconst_4", "putfield_Foo_n", "return">>,
    <<"iconst_4">> }

\* Fragments of the main methods that work on 64-bit values.
LongFragments ==
  {"ldc2_w_1", "ldc2_w_2", "ladd", "lsub", "lmul", "ldiv", "call_lng",
   "print_long"}

\* Fragments of the main methods that branch forward.
BranchFragments ==
  {"goto_6", "if_icmpge_6", "iconst_0", "iconst_1", "getstatic_Bar_f",
   "new_Foo"}

\* Fragments of the main methods that work on 32-bit values.
IntFragments ==
  {"iconst_0", "iconst_1", "iconst_2", "ldc_max", "ldc_minus_7", "iadd",
   "isub", "imul", "idiv"}

\* The main methods the virtual machine is started on.
DriverPrograms ==
  BasePrograms
  \cup {s \o <<"print_int", "return">> : s \in SeqsUpTo(IntFragments, MaxFragments)}
  \cup {s \o <<"return">> : s \in SeqsUpTo(DriverFragments, MaxFragments)}
  \cup {s \o <<"return">> : s \in SeqsUpTo(LongFragments, MaxFragments)}
  \cup {s \o <<"return">> : s \in SeqsUpTo(BranchFragments, MaxFragments)}

(***************************************************************************)
(* History variables: they record what happened and are read by no        *)
(* operation of the program.                                               *)
(***************************************************************************)
\* How a frame came to be: the frame whose instruction caused it (0 for the
\* main frame), the step action that caused it, the length of the frame
\* stack at the head of the driver loop that dispatched that instruction,
\* and the length of the operand stack of that frame once the instruction
\* had popped its operands.
FrameInfo(parent, cause, depth, operands) ==
  [parent |-> parent, cause |-> cause, depth |-> depth, operands |-> operands]

NoStep ==
  [id |-> 0, opcode |-> -1, position |-> 0, kind |-> "", name |-> "",
   arg |-> <<>>]

Stepped(o) ==
  [id |-> frame.id,
   opcode |-> IF HasOpcode(frame) THEN OpcodeAt(frame) ELSE -1,
   position |-> frame.code_position,
   kind |-> o.r.kind, name |-> o.r.name, arg |-> o.r.arg]

Record(info, id, entry) ==
  [i \in DOMAIN info \cup {id} |-> IF i = id THEN entry ELSE info[i]]

(***************************************************************************)
(* VirtualMachine::start.                                                  *)
(***************************************************************************)
Init ==
  /\ \E main \in DriverPrograms : classpath = Program(main)
  /\ overflow_checks \in BOOLEAN
  /\ status = "dispatch"
  /\ stack = <<NewFrame(1, "Main", "main", <<>>)>>
  /\ frame = NoFrame
  /\ class_statics = <<>>
  /\ object_heap = EmptyHeap
  /\ output = <<>>
  /\ panic = ""
  /\ next_frame_id = 1
  /\ frame_info = (1 :> FrameInfo(0, "main", 0, 0))
  /\ last = NoStep
  /\ finished = {}
  /\ initialized = <<>>

\* What the instruction at the code pointer of the stepped frame yields.
Outcome == Execute(Machine(frame, class_statics, object_heap))

Returns(o, name) == status = "step" /\ o.r.kind = "Ok" /\ o.r.name = name

\* The driver goes back to the head of its loop with this frame stack.
Resume(o, stk) ==
  /\ status' = "dispatch"
  /\ stack' = stk
  /\ frame' = NoFrame
  /\ panic' = panic
  /\ last' = Stepped(o)

\* The driver panics while it handles what the instruction yielded.
Abort(o, msg) ==
  /\ status' = "aborted"
  /\ panic' = msg
  /\ frame' = o.f
  /\ class_statics' = o.cs
  /\ object_heap' = o.h
  /\ last' = Stepped(o)
  /\ UNCHANGED <<stack, output, next_frame_id, frame_info, finished,
                 initialized>>

\* The head of the driver loop: the top frame is popped to be stepped.
Dispatch ==
  /\ status = "dispatch"
  /\ stack # <<>>
  /\ Len(stack) <= 255
  /\ status' = "step"
  /\ frame' = Top(stack)
  /\ stack' = DropLast(stack, 1)
  /\ last' = NoStep
  /\ UNCHANGED <<classpath, overflow_checks, class_statics, object_heap,
                 output, panic, next_frame_id, frame_info, finished,
                 initialized>>

\* The frame stack is empty: the loop is left.
Finish ==
  /\ status = "dispatch"
  /\ stack = <<>>
  /\ status' = "finished"
  /\ last' = NoStep
  /\ UNCHANGED <<classpath, overflow_checks, stack, frame, class_statics,
                 object_heap, output, panic, next_frame_id, frame_info,
                 finished, initialized>>

StackOverflow ==
  /\ status = "dispatch"
  /\ Len(stack) > 255
  /\ status' = "aborted"
  /\ panic' = "Stack overflow"
  /\ last' = NoStep
  /\ UNCHANGED <<classpath, overflow_checks, stack, frame, class_statics,
                 object_heap, output, next_frame_id, frame_info, finished,
                 initialized>>

\* An instruction after which the loop of Frame::step goes on.
Interpreted(o) ==
  /\ status = "step"
  /\ o.r.kind = "Continue"
  /\ frame' = o.f
  /\ class_statics' = o.cs
  /\ object_heap' = o.h
  /\ last' = Stepped(o)
  /\ UNCHANGED <<classpath, overflow_checks, status, stack, output, panic,
                 next_frame_id, frame_info, finished, initialized>>

\* A variant that drops the frame and goes on with the loop.
handle_step_error_dropping(o) ==
  /\ status = "step"
  /\ o.r.kind = "Err"
  /\ Resume(o, stack)
  /\ class_statics' = o.cs
  /\ object_heap' = o.h
  /\ UNCHANGED <<classpath, overflow_checks, output, next_frame_id,
                 frame_info, finished, initialized>>

\* step returns a StepError: handle_step_error panics.
handle_step_error(o) ==
  /\ status = "step"
  /\ o.r.kind = "Err"
  /\ Abort(o, o.r.name)
  /\ UNCHANGED <<classpath, overflow_checks>>

\* The instruction itself panics.
Panicked(o) ==
  /\ status = "step"
  /\ o.r.kind = "Panic"
  /\ Abort(o, o.r.name)
  /\ UNCHANGED <<classpath, overflow_checks>>

OnEndOfMethod(o) ==
  /\ Returns(o, "EndOfMethod")
  /\ Resume(o, stack)
  /\ finished' = finished \cup {frame.id}
  /\ class_statics' = o.cs
  /\ object_heap' = o.h
  /\ UNCHANGED <<classpath, overflow_checks, output, next_frame_id,
                 frame_info, initialized>>

OnReturnValue(o) ==
  /\ Returns(o, "ReturnValue")
  /\ IF stack = <<>>
     THEN Abort(o, "Tried to return value with an empty stack")
     ELSE /\ Resume(o, [stack EXCEPT ![Len(stack)] =
                       push_operand_stack_value(@, o.r.arg)])
          /\ finished' = finished \cup {frame.id}
          /\ class_statics' = o.cs
          /\ object_heap' = o.h
          /\ UNCHANGED <<output, next_frame_id, frame_info, initialized>>
  /\ UNCHANGED <<classpath, overflow_checks>>

\* The history of one call of initialize_class.
Initialization(o, class_name, by, trigger, clinit) ==
  [class_name |-> class_name, by |-> by, trigger |-> trigger,
   clinit |-> clinit,
   registered |-> has_class_statics(o.cs, class_name)]

OnInitializeClass(o) ==
  /\ Returns(o, "InitializeClass")
  /\ LET class_name == o.r.arg
         id == next_frame_id + 1
     IN IF ~ClassIsLoaded(class_name)
        THEN Abort(o, "Unable to find class")
        ELSE IF RunsClinit(class_name)
                /\ ~CanCreateFrame(class_name, "<clinit>", <<>>)
        THEN Abort(o, "Method does not have a code attribute!")
        ELSE LET i == initialize_class(o.cs, Append(stack, o.f),
                                       class_name, id)
             IN /\ Resume(o, i.stack)
                /\ class_statics' = i.cs
                /\ object_heap' = o.h
                /\ next_frame_id' =
                     IF RunsClinit(class_name) THEN id ELSE next_frame_id
                /\ frame_info' =
                     IF RunsClinit(class_name)
                     THEN Record(frame_info, id,
                                 FrameInfo(frame.id, "InitializeClass",
                                           Len(stack) + 1,
                                           Len(o.f.operand_stack)))
                     ELSE frame_info
                /\ initialized' =
                     Append(initialized,
                            Initialization(o, class_name, "InitializeClass",
                                           frame.id,
                                           IF RunsClinit(class_name) THEN id
                                           ELSE 0))
                /\ UNCHANGED <<output, finished>>
  /\ UNCHANGED <<classpath, overflow_checks>>

OnAllocateString(o) ==
  /\ Returns(o, "AllocateString")
  /\ IF ~ClassIsLoaded(STRING_CLASS)
     THEN Abort(o, "Unable to find class")
     ELSE IF ~CanAllocateObject(resolve_class(STRING_CLASS))
     THEN Abort(o, "Unexpected field type")
     ELSE LET a == AllocateStringOnHeap(o.h, o.r.arg) IN
          /\ Resume(o, Append(stack,
                           push_operand_stack_value(o.f,
                                                    Reference(a.pointer))))
          /\ object_heap' = a.heap
          /\ class_statics' = o.cs
          /\ UNCHANGED <<output, next_frame_id, frame_info, finished,
                         initialized>>
  /\ UNCHANGED <<classpath, overflow_checks>>

\* The AllocateClass handler initializes a class that has no statics yet.
\* A variant that initializes the class on every allocation.
InitializesAlways(cs, class_name) == TRUE

NeedsInitialization(cs, class_name) == ~has_class_statics(cs, class_name)

OnAllocateClass(o) ==
  /\ Returns(o, "AllocateClass")
  /\ LET class_name == o.r.arg
         id == next_frame_id + 1
         needed == ClassIsLoaded(class_name)
                   /\ NeedsInitialization(o.cs, class_name)
         pushed == needed /\ RunsClinit(class_name)
     IN IF ~ClassIsLoaded(class_name)
        THEN Abort(o, "Unable to find class")
        ELSE IF pushed /\ ~CanCreateFrame(class_name, "<clinit>", <<>>)
        THEN Abort(o, "Method does not have a code attribute!")
        ELSE IF ~CanAllocateObject(resolve_class(class_name))
        THEN Abort(o, "Unexpected field type")
        ELSE LET i == IF needed
                      THEN initialize_class(o.cs, stack, class_name, id)
                      ELSE [cs |-> o.cs, stack |-> stack]
                 pointer == o.h.current_pointer
             IN /\ Resume(o, Append(i.stack,
                                 push_operand_stack_value(o.f,
                                                          Reference(pointer))))
                /\ class_statics' = i.cs
                /\ object_heap' = allocate_object(o.h, class_name)
                /\ next_frame_id' = IF pushed THEN id ELSE next_frame_id
                /\ frame_info' =
                     IF pushed
                     THEN Record(frame_info, id,
                                 FrameInfo(frame.id, "AllocateClass",
                                           Len(stack) + 1,
                                           Len(o.f.operand_stack)))
                     ELSE frame_info
                /\ initialized' =
                     IF needed
                     THEN Append(initialized,
                                 Initialization(o, class_name, "AllocateClass",
                                                frame.id,
                                                IF pushed THEN id ELSE 0))
                     ELSE initialized
                /\ UNCHANGED <<output, finished>>
  /\ UNCHANGED <<classpath, overflow_checks>>

OnAllocateArray(o) ==
  /\ Returns(o, "AllocateArray")
  /\ IF o.r.arg < 0
     THEN Abort(o, "capacity overflow")
     ELSE /\ Resume(o, Append(stack,
                           push_operand_stack_value(
                             o.f,
                             Reference(o.h.current_pointer))))
          /\ object_heap' = allocate_array(o.h, o.r.arg)
          /\ class_statics' = o.cs
          /\ UNCHANGED <<output, next_frame_id, frame_info, finished,
                         initialized>>
  /\ UNCHANGED <<classpath, overflow_checks>>

\* The driver pushes the frame of the invoked method on top of its caller.
PushCallee(o, cause) ==
  LET call == o.r.arg
      id == next_frame_id + 1
  IN /\ Resume(o, Append(Append(stack, o.f),
                      NewFrame(id, call.class_name, call.name, call.args)))
     /\ next_frame_id' = id
     /\ frame_info' =
          Record(frame_info, id,
                 FrameInfo(frame.id, cause, Len(stack) + 1,
                           Len(o.f.operand_stack)))
     /\ class_statics' = o.cs
     /\ object_heap' = o.h
     /\ UNCHANGED <<output, finished, initialized>>

\* InvokeVirtualMethod | InvokeSpecialMethod
OnInvokeInstanceMethod(o) ==
  /\ \/ Returns(o, "InvokeVirtualMethod")
     \/ Returns(o, "InvokeSpecialMethod")
  /\ LET call == o.r.arg IN
     IF ~ClassIsLoaded(call.class_name)
     THEN Abort(o, "Unable to find class")
     ELSE IF ~HasMethod(call.class_name, call.name)
     THEN Abort(o, "Unable to find method")
     ELSE IF ~CanCreateFrame(call.class_name, call.name, call.args)
     THEN Abort(o, "Frame::new panicked")
     ELSE PushCallee(o, o.r.name)
  /\ UNCHANGED <<classpath, overflow_checks>>

\* AccessFlags::is_native of the resolved method.
IsNative(class_name, name) == maybe_resolve_method(class_name, name).native

\* InvokeStaticMethod, with call_static_method.
OnInvokeStaticMethod(o) ==
  /\ Returns(o, "InvokeStaticMethod")
  /\ LET call == o.r.arg IN
     IF ~ClassIsLoaded(call.class_name)
     THEN Abort(o, "Unable to find class")
     ELSE IF ~HasMethod(call.class_name, call.name)
     THEN Abort(o, "Unable to find method")
     ELSE IF IsNative(call.class_name, call.name)
     THEN LET printed == NativePrint(o.h, call.args) IN
          IF ~printed.ok
          THEN Abort(o, printed.panic)
          ELSE /\ Resume(o, Append(stack, o.f))
               /\ output' = Append(output, printed.line)
               /\ class_statics' = o.cs
               /\ object_heap' = o.h
               /\ UNCHANGED <<next_frame_id, frame_info, finished,
                              initialized>>
     ELSE IF ~CanCreateFrame(call.class_name, call.name, call.args)
     THEN Abort(o, "Frame::new panicked")
     ELSE PushCallee(o, "InvokeStaticMethod")
  /\ UNCHANGED <<classpath, overflow_checks>>

\* The actions: what the driver does with what the instruction at the code
\* pointer of the stepped frame yields.
Interpret == Interpreted(Outcome)
HandleStepError == handle_step_error(Outcome)
StepPanic == Panicked(Outcome)
EndOfMethod == OnEndOfMethod(Outcome)
ReturnValue == OnReturnValue(Outcome)
InitializeClass == OnInitializeClass(Outcome)
AllocateString == OnAllocateString(Outcome)
AllocateClass == OnAllocateClass(Outcome)
AllocateArray == OnAllocateArray(Outcome)
InvokeInstanceMethod == OnInvokeInstanceMethod(Outcome)
InvokeStaticMethod == OnInvokeStaticMethod(Outcome)

Next ==
  \/ Dispatch
  \/ Finish
  \/ StackOverflow
  \/ Interpret
  \/ HandleStepError
  \/ StepPanic
  \/ EndOfMethod
  \/ ReturnValue
  \/ InitializeClass
  \/ AllocateString
  \/ AllocateClass
  \/ AllocateArray
  \/ InvokeInstanceMethod
  \/ InvokeStaticMethod

Spec == Init /\ [][Next]_vars

(***************************************************************************)
(* Properties of class initialization.                                     *)
(***************************************************************************)
\* The calls of initialize_class made for that step action that pushed a
\* <clinit> frame.
RanClinit(by) ==
  {k \in DOMAIN initialized :
     initialized[k].by = by /\ initialized[k].clinit # 0}

\* The constant-pool index that follows the opcode at the code pointer of f.
OperandIndex(f) ==
  CodeOf(f)[f.code_position + 2] * 256 + CodeOf(f)[f.code_position + 3]

\* The class named by the field reference of the getstatic or putstatic that
\* the stepped frame has just executed.
StaticClassOf(step) ==
  ConstantPoolOf(frame.class)[
    CodeOf(frame)[step.position + 2] * 256
      + CodeOf(frame)[step.position + 3]].class_name

\* C1: when getstatic or putstatic made the driver initialize a class that
\* defines <clinit>, the frame that executed it is not stepped again before
\* the <clinit> frame has returned, and a getstatic or putstatic that goes
\* through (reads or writes the static) finds its class registered.
C1_ClinitCompletesBeforeTrigger ==
  /\ \A k \in RanClinit("InitializeClass") :
       (status = "step" /\ frame.id = initialized[k].trigger)
         => initialized[k].clinit \in finished
  /\ (status = "step" /\ last.kind = "Continue" /\ last.opcode \in {178, 179})
       => StaticClassOf(last) \in DOMAIN class_statics

\* The triggering frame has executed its getstatic or putstatic again, after
\* the <clinit> frame it caused returned.
C1_Witness ==
  \E k \in RanClinit("InitializeClass") :
    /\ status = "step"
    /\ last.kind = "Continue"
    /\ last.opcode \in {178, 179}
    /\ last.id = initialized[k].trigger
    /\ StaticClassOf(last) = initialized[k].class_name
    /\ initialized[k].clinit \in finished

\* C2: when `new` made the driver initialize a class that defines <clinit>,
\* the allocating frame is not stepped again before the <clinit> frame has
\* returned.
C2_ClinitRunsBeforeAllocatorResumes ==
  \A k \in RanClinit("AllocateClass") :
    (status = "step" /\ frame.id = initialized[k].trigger)
      => initialized[k].clinit \in finished

\* C3: initialize_class is called at most once for a class, and never for a
\* class that is in the class-static table; InitializeClass is not emitted
\* for a class in the table.
C3_InitializedOnce ==
  /\ \A j, k \in DOMAIN initialized :
       initialized[j].class_name = initialized[k].class_name => j = k
  /\ \A j, k \in DOMAIN initialized :
       (initialized[j].clinit # 0
        /\ initialized[j].clinit = initialized[k].clinit) => j = k
  /\ \A k \in DOMAIN initialized : ~initialized[k].registered
  /\ (status = "aborted" /\ last.kind = "Ok" /\ last.name = "InitializeClass")
       => last.arg \notin DOMAIN class_statics

\* A class whose <clinit> has returned is allocated again, and is not
\* initialized again.
C3_Witness ==
  \E k \in DOMAIN initialized :
    /\ initialized[k].clinit \in finished
    /\ status = "dispatch"
    /\ last.kind = "Ok"
    /\ last.name = "AllocateClass"
    /\ last.arg = initialized[k].class_name

(***************************************************************************)
(* Properties of method invocation.                                        *)
(***************************************************************************)
InvokeNames ==
  {"InvokeStaticMethod", "InvokeVirtualMethod", "InvokeSpecialMethod"}

\* The driver has handled the step action `names` of the stepped frame and
\* is back at the head of its loop.
Handles(names) ==
  status = "step" /\ status' = "dispatch" /\ last'.kind = "Ok"
    /\ last'.name \in names

\* C4: when a frame created for an Invoke* action returns a value, the value
\* is pushed onto the operand stack of the frame that issued the invoke, and
\* no other frame changes.
C4_ReturnValueGoesToInvoker ==
  [][(Handles({"ReturnValue"}) /\ frame_info[frame.id].cause \in InvokeNames)
       => /\ stack # <<>>
          /\ stack[Len(stack)].id = frame_info[frame.id].parent
          /\ stack' = [stack EXCEPT ![Len(stack)] =
                         push_operand_stack_value(@, last'.arg)]]_vars

\* C5: when the frame of an invokestatic returns, the frame stack is as deep
\* as it was at the head of the loop that dispatched the invokestatic, and
\* after ReturnValue the caller holds one operand more than it held once the
\* arguments were popped.
C5_DepthRestoredAfterStaticCall ==
  (status = "dispatch" /\ last.kind = "Ok"
   /\ last.name \in {"EndOfMethod", "ReturnValue"}
   /\ frame_info[last.id].cause = "InvokeStaticMethod")
    => /\ Len(stack) = frame_info[last.id].depth
       /\ last.name = "ReturnValue"
            => \E i \in DOMAIN stack :
                 /\ stack[i].id = frame_info[last.id].parent
                 /\ Len(stack[i].operand_stack)
                      = frame_info[last.id].operands + 1

\* The arguments are those of several parameters of one slot each.
SeveralParameters(args) ==
  Len(args) >= 2 /\ \A i \in DOMAIN args : args[i].t \notin {"Long", "Filler"}

\* C6: the frame pushed for an invokestatic of a method with several
\* parameters holds the arguments in the order the caller pushed them: the
\* first pushed in local 0, the next in local 1, and so on.
C6_StaticArgumentsInDeclarationOrder ==
  [][(Handles({"InvokeStaticMethod"}) /\ next_frame_id' # next_frame_id
      /\ SeveralParameters(last'.arg.args))
       => LET n == Len(last'.arg.args)
              pushed == frame.operand_stack
          IN \A i \in 1..n :
               stack'[Len(stack')].variables[i]
                 = pushed[Len(pushed) - n + i]]_vars

\* The arity a descriptor has by its parameter list: 1 for each of
\* B C F I S Z and for each class type L...;, 2 for each of J D.
RECURSIVE AfterClassType(_, _)
AfterClassType(d, i) ==
  IF i > Len(d) THEN i
  ELSE IF d[i] = ";" THEN i + 1 ELSE AfterClassType(d, i + 1)

RECURSIVE ParameterSlots(_, _)
ParameterSlots(d, i) ==
  IF i > Len(d) \/ d[i] = ")" THEN 0
  ELSE IF d[i] = "L" THEN 1 + ParameterSlots(d, AfterClassType(d, i))
  ELSE IF d[i] \in {"J", "D"} THEN 2 + ParameterSlots(d, i + 1)
  ELSE IF d[i] = "[" THEN ParameterSlots(d, i + 1)
  ELSE 1 + ParameterSlots(d, i + 1)

\* C7: invokevirtual and invokespecial pop the descriptor arity plus one
\* values; the callee's locals hold them in the order the caller pushed
\* them, the receiver in local 0.
C7_InstanceArgumentsWithReceiver ==
  [][Handles({"InvokeVirtualMethod", "InvokeSpecialMethod"})
       => LET method == ConstantPoolOf(frame.class)[OperandIndex(frame)]
              n == ParameterSlots(method.descriptor, 2) + 1
              pushed == frame.operand_stack
              caller == stack'[Len(stack') - 1]
              callee == stack'[Len(stack')]
          IN /\ Len(pushed) >= n
             /\ Len(caller.operand_stack) = Len(pushed) - n
             /\ last'.arg.args = SubSeq(pushed, Len(pushed) - n + 1, Len(pushed))
             /\ \A i \in 1..n :
                  callee.variables[i] = pushed[Len(pushed) - n + i]]_vars

(***************************************************************************)
(* Properties of 64-bit values.                                            *)
(***************************************************************************)
LongPushes == {20, 30, 32, 97, 101, 105, 109}
LongArithmetic == {97, 101, 105, 109}

\* C8: after ldc2_w, lload_0, lload_2, ladd, lsub, lmul or ldiv the top of
\* the operand stack is Filler and the slot beneath it is a Long.
C8_FillerOverLongAfterLongPush ==
  (status = "step" /\ last.kind = "Continue" /\ last.opcode \in LongPushes)
    => LET s == frame.operand_stack
       IN /\ Len(s) >= 2
          /\ s[Len(s)] = Filler
          /\ s[Len(s) - 1].t = "Long"

\* The operand stack ends with two long values, each a Long and its Filler.
EndsWithTwoLongs(s) ==
  /\ Len(s) >= 4
  /\ s[Len(s)] = Filler
  /\ s[Len(s) - 1].t = "Long"
  /\ s[Len(s) - 2] = Filler
  /\ s[Len(s) - 3].t = "Long"

\* C9: ladd, lsub, lmul and ldiv on an operand stack that ends with two long
\* values, each a Long and its Filler, yield no step error and leave the
\* result and its Filler in their place; the run of
\* ldc2_w 1; ldc2_w 2; ladd; invokestatic print(J)V ends having printed 3.
C9_LongArithmeticOnLongFillerPairs ==
  /\ (status = "step" /\ HasOpcode(frame)
      /\ OpcodeAt(frame) \in LongArithmetic
      /\ EndsWithTwoLongs(frame.operand_stack))
       => /\ Outcome.r.kind = "Continue"
          /\ LET s == Outcome.f.operand_stack
             IN /\ Len(s) = Len(frame.operand_stack) - 2
                /\ s[Len(s)] = Filler
                /\ s[Len(s) - 1].t = "Long"
  /\ (status \in {"finished", "aborted"}
      /\ CodeOf(NewFrame(1, "Main", "main", <<>>))
           = Assemble(<<"ldc2_w_1", "ldc2_w_2", "ladd", "print_long",
                        "return">>))
       => output = <<Decimal(3)>>

\* C10: the locals of a frame pushed for an invocation hold every Long
\* followed by its Filler, and no Filler that does not follow a Long.
C10_LongArgumentThenFiller ==
  (status = "dispatch" /\ last.kind = "Ok" /\ last.name \in InvokeNames
   /\ stack # <<>>
   /\ stack[Len(stack)].id = next_frame_id
   /\ frame_info[next_frame_id].parent = last.id)
    => LET v == stack[Len(stack)].variables
       IN \A i \in DOMAIN v :
            /\ v[i].t = "Long" => (i + 1 \in DOMAIN v /\ v[i + 1] = Filler)
            /\ v[i] = Filler => (i > 1 /\ v[i - 1].t = "Long")

(***************************************************************************)
(* Properties of frames.                                                   *)
(***************************************************************************)
\* max_locals of the method a frame runs.
MaxLocalsOf(f) == maybe_resolve_method(f.class, f.method).max_locals

\* C11: the locals of every frame on the frame stack, and of the stepped
\* frame after each instruction, are as many as its method's max_locals.
C11_LocalsLengthIsMaxLocals ==
  /\ \A i \in DOMAIN stack : Len(stack[i].variables) = MaxLocalsOf(stack[i])
  /\ status = "step" => Len(frame.variables) = MaxLocalsOf(frame)

\* C12: when step returns a step action, the code pointer of the frame is
\* in [0, code.len()].
C12_CodePointerInRange ==
  (status = "step" /\ Outcome.r.kind = "Ok")
    => /\ Outcome.f.code_position >= 0
       /\ Outcome.f.code_position <= Len(CodeOf(frame))

\* getstatic returns InitializeClass, rewound to its opcode, right after a
\* backward if_icmpge was taken to it.
C12_Witness ==
  /\ status = "step"
  /\ last.kind = "Continue"
  /\ last.opcode = 162
  /\ frame.code_position < last.position
  /\ Outcome.r.kind = "Ok"
  /\ Outcome.r.name = "InitializeClass"
  /\ Outcome.f.code_position = frame.code_position

\* C13: when the code pointer of the stepped frame is at the end of the
\* code, step yields EndOfMethod.
C13_EndOfCodeIsEndOfMethod ==
  (status = "step" /\ frame.code_position = Len(CodeOf(frame)))
    => (Outcome.r.kind = "Ok" /\ Outcome.r.name = "EndOfMethod")

(***************************************************************************)
(* Properties of the driver loop.                                          *)
(***************************************************************************)
\* C14: the driver has aborted with a stack overflow only on a frame stack
\* of more than 256 frames.
C14_StackOverflowAbove256 ==
  (status = "aborted" /\ panic = "Stack overflow") => Len(stack) > 256

\* C15: once the main frame has returned EndOfMethod the frame stack is
\* empty and no frame is stepped.
C15_MainFrameEndsTheRun ==
  1 \in finished => (stack = <<>> /\ status # "step")

\* The stepped frame is about to return an Invoke* step action, one of
\* `names`, whose resolved target method is native and whose last argument
\* the print intrinsic can print.
InvokesNative(names) ==
  /\ status = "step"
  /\ Outcome.r.kind = "Ok"
  /\ Outcome.r.name \in names
  /\ ClassIsLoaded(Outcome.r.arg.class_name)
  /\ HasMethod(Outcome.r.arg.class_name, Outcome.r.arg.name)
  /\ IsNative(Outcome.r.arg.class_name, Outcome.r.arg.name)
  /\ NativePrint(Outcome.h, Outcome.r.arg.args).ok

\* C16: for every Invoke* action, static, special or virtual, whose target
\* method is native, the driver prints the last argument, pushes no new
\* frame, and puts the caller back, positioned after the invoke, at the
\* depth it was dispatched from.
C16_NativeInvokePrintsAndResumes ==
  [][InvokesNative(InvokeNames)
       => /\ status' = "dispatch"
          /\ stack' = Append(stack, Outcome.f)
          /\ output' =
               Append(output, NativePrint(Outcome.h, Outcome.r.arg.args).line)
          /\ next_frame_id' = next_frame_id]_vars

(***************************************************************************)
(* Properties of the arity of method descriptors.                          *)
(***************************************************************************)
\* The stepped frame is at an invokevirtual, invokespecial or invokestatic
\* whose operand resolves to a method reference.
AtInvoke ==
  /\ status = "step"
  /\ HasOpcode(frame)
  /\ OpcodeAt(frame) \in {182, 183, 184}
  /\ frame.code_position + 3 <= Len(CodeOf(frame))
  /\ OperandIndex(frame) \in DOMAIN ConstantPoolOf(frame.class)
  /\ ConstantPoolOf(frame.class)[OperandIndex(frame)].tag = "Methodref"

\* The descriptor of the method the invoke at the code pointer refers to.
InvokedDescriptor == ConstantPoolOf(frame.class)[OperandIndex(frame)].descriptor

HasArrayToken(d) == \E i \in DOMAIN d : d[i] = "["

\* C17: whatever the return type of the descriptor of an invoked method,
\* the arity computed for it is the sum over its parameters of 1 for each
\* of B C F I S Z and each class type and 2 for each of J D.
C17_ArityWhateverTheReturnType ==
  (AtInvoke /\ ~HasArrayToken(InvokedDescriptor))
    => determine_number_of_arguments(InvokedDescriptor)
         = ParameterSlots(InvokedDescriptor, 2)

\* C18: an array token in the parameter list of the descriptor of an
\* invoked method adds nothing to the arity and does not abort the
\* instruction: ([I)V has arity 1.
C18_ArrayTokenPassesThrough ==
  (AtInvoke /\ HasArrayToken(InvokedDescriptor))
    => /\ Outcome.r.kind # "Panic"
       /\ determine_number_of_arguments(InvokedDescriptor)
            = ParameterSlots(InvokedDescriptor, 2)

(***************************************************************************)
(* Properties of the class-static table.                                   *)
(***************************************************************************)
\* The field reference of the getstatic or putstatic at the code pointer of
\* the stepped frame.
StaticField == ConstantPoolOf(frame.class)[OperandIndex(frame)]

\* C19: when getstatic or putstatic makes the driver initialize the class,
\* the frame goes back on the frame stack with its operand stack, its locals
\* and its code pointer as they were before the instruction, the code
\* pointer on the getstatic or putstatic; the putstatic that goes through
\* pops one value, the one it stores.
C19_StaticRetryLeavesFrameUntouched ==
  [][/\ Handles({"InitializeClass"})
          => (/\ HasOpcode(frame)
              /\ OpcodeAt(frame) \in {178, 179}
              /\ stack'[Len(stack) + 1] = frame)
     /\ (status = "step" /\ status' = "step" /\ last'.kind = "Continue"
         /\ last'.opcode = 179)
          => (/\ frame.operand_stack # <<>>
              /\ frame'.operand_stack = DropLast(frame.operand_stack, 1)
              /\ frame'.variables = frame.variables
              /\ class_statics'[StaticField.class_name][StaticField.name]
                   = Top(frame.operand_stack))]_vars

\* main = getstatic Foo.x; putstatic Bar.f; return has stored Foo.x, which
\* is 1, in Bar.f: its putstatic made the driver initialize Bar, whose
\* <clinit> stores 5, and went through on its second execution.
C19_Witness ==
  /\ classpath["Main"].methods["main"].code
       = Assemble(<<"getstatic_Foo_x", "putstatic_Bar_f", "return">>)
  /\ status = "step"
  /\ last.id = 1 /\ last.kind = "Continue" /\ last.opcode = 179
  /\ \E k \in RanClinit("InitializeClass") :
       /\ initialized[k].class_name = "Bar"
       /\ initialized[k].trigger = 1
       /\ initialized[k].clinit \in finished
  /\ frame.operand_stack = <<>>
  /\ class_statics["Bar"]["f"] = JInt(1)

\* The stepped frame is at a putstatic of field field_name of class_name.
AtPutstatic(class_name, field_name) ==
  /\ status = "step"
  /\ HasOpcode(frame)
  /\ OpcodeAt(frame) = 179
  /\ frame.code_position + 3 <= Len(CodeOf(frame))
  /\ OperandIndex(frame) \in DOMAIN ConstantPoolOf(frame.class)
  /\ StaticField.tag = "Fieldref"
  /\ StaticField.class_name = class_name
  /\ StaticField.name = field_name

\* C20: a putstatic that goes through leaves the value it popped in the
\* field; the value of a field stays, reference handles included, through
\* every step that is not a putstatic of that field; and a getstatic that
\* goes through pushes the value of the field.
C20_GetstaticReadsLastPutstatic ==
  [][/\ (status = "step" /\ status' = "step" /\ last'.kind = "Continue"
         /\ last'.opcode = 179)
          => class_statics'[StaticField.class_name][StaticField.name]
               = Top(frame.operand_stack)
     /\ \A c \in DOMAIN class_statics :
          \A f \in DOMAIN class_statics[c] :
            ~AtPutstatic(c, f)
              => (/\ c \in DOMAIN class_statics'
                  /\ f \in DOMAIN class_statics'[c]
                  /\ class_statics'[c][f] = class_statics[c][f])
     /\ (status = "step" /\ status' = "step" /\ last'.kind = "Continue"
         /\ last'.opcode = 178)
          => frame'.operand_stack
               = Append(frame.operand_stack,
                        class_statics[StaticField.class_name][StaticField.name])
    ]_vars

\* main = new Foo; putstatic Bar.f; getstatic Bar.f; return has read back
\* the handle of the object: its putstatic made the driver initialize Bar,
\* whose <clinit> stores 5 in Bar.f, and stored the handle on its second
\* execution.
C20_Witness ==
  /\ classpath["Main"].methods["main"].code
       = Assemble(<<"new_Foo", "putstatic_Bar_f", "getstatic_Bar_f",
                    "return">>)
  /\ status = "step"
  /\ last.id = 1 /\ last.kind = "Continue" /\ last.opcode = 178
  /\ \E k \in RanClinit("InitializeClass") :
       /\ initialized[k].class_name = "Bar"
       /\ initialized[k].trigger = 1
       /\ initialized[k].clinit \in finished
  /\ Len(frame.operand_stack) = 1
  /\ frame.operand_stack[1].t = "Reference"
  /\ object_heap.objects[frame.operand_stack[1].v].class_name = "Foo"
  /\ class_statics["Bar"]["f"] = frame.operand_stack[1]

\* C21: register_class of a class that is registered leaves the
\* class-static table as it is, the static fields stored for the class
\* included.
C21_RegisterClassIdempotent ==
  \A c \in DOMAIN class_statics :
    register_class(class_statics, c) = class_statics

\* The names of the static fields of the classes of the classpath.
StaticFieldNames == {"f", "x", "g", "h"}

\* C22: get_class_static yields UninitializedClass for a class that is not
\* registered and StaticFieldNotFound for a field of a registered class that
\* has not been set; a getstatic of a field of a registered class that no
\* putstatic has written yields that step error, and the error aborts the
\* run.
C22_GetstaticOfUnwrittenFieldIsFatal ==
  /\ \A c \in DOMAIN classpath : \A f \in StaticFieldNames :
       LET got == get_class_static(class_statics, c, f) IN
       IF c \notin DOMAIN class_statics
       THEN ~got.ok /\ got.error = "UninitializedClass"
       ELSE IF f \notin DOMAIN class_statics[c]
            THEN ~got.ok /\ got.error = "StaticFieldNotFound"
            ELSE got.ok /\ got.value = class_statics[c][f]
  /\ (/\ status = "step"
      /\ HasOpcode(frame)
      /\ OpcodeAt(frame) = 178
      /\ frame.code_position + 3 <= Len(CodeOf(frame))
      /\ OperandIndex(frame) \in DOMAIN ConstantPoolOf(frame.class)
      /\ StaticField.tag = "Fieldref"
      /\ StaticField.class_name \in DOMAIN class_statics
      /\ StaticField.name \notin DOMAIN class_statics[StaticField.class_name])
       => Outcome.r = Err("DataStore", "StaticFieldNotFound")
  /\ (last.kind = "Err" /\ last.name = "DataStore") => status = "aborted"

\* main = getstatic Qux.g; return: the getstatic registered Qux, which has
\* no <clinit>, and failed on its second execution.
C22_Witness ==
  /\ status = "aborted"
  /\ last.id = 1 /\ last.opcode = 178
  /\ last.kind = "Err" /\ last.name = "DataStore"
  /\ last.arg = "StaticFieldNotFound"
  /\ "Qux" \in DOMAIN class_statics
  /\ "g" \notin DOMAIN class_statics["Qux"]

(***************************************************************************)
(* Properties of the heap.                                                 *)
(***************************************************************************)
\* The handles allocate_object and allocate_array have returned.
AllocatedHandles(h) == DOMAIN h.objects

\* C23: the handles allocated by a step are the pointers from the current
\* pointer on, each greater than every handle allocated before; a handle
\* that get_object or get_array resolves is resolved by the same accessor
\* after every step.
C23_HandlesIncreaseAndStay ==
  [][/\ AllocatedHandles(object_heap') \ AllocatedHandles(object_heap)
          = object_heap.current_pointer..(object_heap'.current_pointer - 1)
     /\ \A p \in AllocatedHandles(object_heap') \ AllocatedHandles(object_heap) :
          \A q \in AllocatedHandles(object_heap) : p > q
     /\ \A q \in AllocatedHandles(object_heap) :
          /\ get_object(object_heap, Reference(q)).kind = "Ok"
               => get_object(object_heap', Reference(q)).kind = "Ok"
          /\ get_array(object_heap, Reference(q)).kind = "Ok"
               => get_array(object_heap', Reference(q)).kind = "Ok"]_vars

\* A run has ended with the character array of a String and the String on
\* the heap, allocated in that order.
C23_Witness ==
  /\ status = "finished"
  /\ object_heap.current_pointer = 2
  /\ get_array(object_heap, Reference(0)).kind = "Ok"
  /\ get_object(object_heap, Reference(1)).kind = "Ok"
  /\ object_heap.objects[1].class_name = STRING_CLASS

\* A handle that has not been allocated.
FreshReference == Reference(object_heap.current_pointer)

\* The read accessors on a handle that was never allocated and on handles of
\* the wrong kind.
ReadAccessorsReturnErrors ==
  /\ get_object(object_heap, FreshReference)
       = [kind |-> "Err", error |-> "InvalidPointer"]
  /\ get_array(object_heap, FreshReference)
       = [kind |-> "Err", error |-> "InvalidPointer"]
  /\ get_field(object_heap, FreshReference, "n")
       = [kind |-> "Err", error |-> "InvalidPointer"]
  /\ \A q \in AllocatedHandles(object_heap) :
       IF object_heap.objects[q].kind = "Array"
       THEN /\ get_object(object_heap, Reference(q))
                 = [kind |-> "Err", error |-> "UnexpectedHeapType"]
            /\ get_field(object_heap, Reference(q), "n")
                 = [kind |-> "Err", error |-> "UnexpectedHeapType"]
       ELSE get_array(object_heap, Reference(q))
              = [kind |-> "Err", error |-> "UnexpectedHeapType"]

\* The stepped frame is at a getfield (180) or putfield (181) that finds
\* its operands, the reference among them a Reference that get_object does
\* not resolve.
AtFieldAccessOfNoObject(opcode, below) ==
  /\ status = "step"
  /\ HasOpcode(frame)
  /\ OpcodeAt(frame) = opcode
  /\ frame.code_position + 3 <= Len(CodeOf(frame))
  /\ OperandIndex(frame) \in DOMAIN ConstantPoolOf(frame.class)
  /\ StaticField.tag = "Fieldref"
  /\ Len(frame.operand_stack) > below
  /\ frame.operand_stack[Len(frame.operand_stack) - below].t = "Reference"
  /\ get_object(object_heap,
                frame.operand_stack[Len(frame.operand_stack) - below]).kind
       = "Err"

\* C24: the heap accessors return InvalidPointer for a handle that was
\* never allocated and UnexpectedHeapType for a handle of the other kind,
\* and leave the heap as it is: getfield and putfield on such a reference
\* yield that error as a step error.
C24_HeapAccessorsReturnErrors ==
  /\ ReadAccessorsReturnErrors
  /\ \A opcode \in {180, 181} :
       AtFieldAccessOfNoObject(opcode, opcode - 180)
         => /\ Outcome.r.kind = "Err"
            /\ Outcome.r.name = "DataStore"
            /\ Outcome.r.arg \in {"InvalidPointer", "UnexpectedHeapType"}
            /\ Outcome.h = object_heap

(***************************************************************************)
(* Properties of the step errors.                                          *)
(***************************************************************************)
\* The opcodes Frame::step has an arm for.
DispatchTable ==
  (3..8) \cup {16, 18, 20, 26, 27, 28, 30, 32, 42, 43, 46, 60, 61, 76, 79, 89}
  \cup {96, 100, 104, 108, 97, 101, 105, 109, 132, 145, 162, 167, 172, 176}
  \cup {177, 178, 179, 180, 181, 182, 183, 184, 187, 188, 190}

\* C25: an opcode byte outside the dispatch table makes the step fail with
\* UnknownOpcode of that byte; a step that fails aborts the run, and
\* nothing is done once the run is aborted.
C25_UnknownOpcodeAndErrorsAreFatal ==
  [][/\ (status = "step" /\ HasOpcode(frame)
         /\ OpcodeAt(frame) \notin DispatchTable)
          => Outcome.r = Err("UnknownOpcode", OpcodeAt(frame))
     /\ (status = "step" /\ Outcome.r.kind = "Err")
          => (status' = "aborted" /\ stack' = stack)
     /\ status # "aborted"]_vars

\* The run was aborted by the opcode 87, which has no arm.
C25_Witness ==
  /\ status = "aborted"
  /\ last.kind = "Err" /\ last.name = "UnknownOpcode" /\ last.arg = 87
  /\ last.opcode = 87

\* The number of operand bytes that follow an opcode in the code.
OperandBytes(opcode) ==
  IF opcode \in {16, 18, 188} THEN 1
  ELSE IF opcode \in {20, 132, 162, 167, 178, 179, 180, 181, 182, 183, 184,
                      187}
       THEN 2
       ELSE 0

\* The stepped frame is at an instruction whose operand bytes extend past
\* the end of the code.
AtTruncatedInstruction ==
  /\ status = "step"
  /\ HasOpcode(frame)
  /\ frame.code_position + 1 + OperandBytes(OpcodeAt(frame))
       > Len(CodeOf(frame))

\* The last n values of the operand stack of the stepped frame are Ints.
EndsWithInts(n) ==
  /\ Len(frame.operand_stack) >= n
  /\ \A i \in 1..n :
       frame.operand_stack[Len(frame.operand_stack) - n + i].t = "Int"

\* The values the instruction pops before it decodes its operand bytes are
\* on the operand stack: one Int for newarray, two for if_icmpge.
PoppedFirstAvailable ==
  /\ OpcodeAt(frame) = 188 => EndsWithInts(1)
  /\ OpcodeAt(frame) = 162 => EndsWithInts(2)

\* C26, as stated: an instruction whose operand bytes extend past the end
\* of the code fails with CodeIndexOutOfBounds.
C26_TruncatedOperandsFail ==
  AtTruncatedInstruction
    => (Outcome.r.kind = "Err" /\ Outcome.r.name = "CodeIndexOutOfBounds")

\* What the code does: such an instruction fails with CodeIndexOutOfBounds
\* when the values it pops before decoding are on the operand stack;
\* newarray and if_icmpge, which pop Ints first, otherwise fail with the
\* step error of the pop.
TruncatedOperandsFailAfterPops ==
  AtTruncatedInstruction
    => IF PoppedFirstAvailable
       THEN Outcome.r.kind = "Err" /\ Outcome.r.name = "CodeIndexOutOfBounds"
       ELSE /\ Outcome.r.kind = "Err"
            /\ Outcome.r.name \in {"UnexpectedEmptyVec", "UnexpectedJavaType"}

\* An if_icmpge that found its two Ints and not its second operand byte
\* aborted the run.
TruncatedBranchAborted ==
  /\ status = "aborted"
  /\ last.opcode = 162
  /\ last.kind = "Err" /\ last.name = "CodeIndexOutOfBounds"
  /\ last.position + 2 = Len(CodeOf(frame))

\* The opcodes whose instruction starts with a pop, those that start with
\* a pop of an Int, and those that start with a pop of a Long.
PopsFirst ==
  {46, 60, 61, 76, 79, 89, 96, 100, 104, 108, 97, 101, 105, 109, 145, 162,
   172, 176, 188, 190}
PopsIntFirst == {46, 96, 100, 104, 108, 145, 162, 188}
PopsLongFirst == {97, 101, 105, 109}

\* A typed pop of the stepped frame that finds another variant on top of
\* the operand stack yields UnexpectedJavaType.
TypedPopFailsOnOtherVariant ==
  (status = "step" /\ HasOpcode(frame) /\ frame.operand_stack # <<>>)
    => /\ (OpcodeAt(frame) \in PopsIntFirst
           /\ Top(frame.operand_stack).t # "Int")
            => Outcome.r
                 = Err("UnexpectedJavaType", Top(frame.operand_stack).t)
       /\ (OpcodeAt(frame) \in PopsLongFirst
           /\ Top(frame.operand_stack).t # "Long")
            => Outcome.r
                 = Err("UnexpectedJavaType", Top(frame.operand_stack).t)

\* C27: an instruction that pops from an empty operand stack yields the
\* step error UnexpectedEmptyVec, and a typed pop that finds another
\* variant yields the step error UnexpectedJavaType.
C27_PopsFailWithStepErrors ==
  /\ (status = "step" /\ HasOpcode(frame) /\ OpcodeAt(frame) \in PopsFirst
      /\ frame.operand_stack = <<>>)
       => Outcome.r = Err("UnexpectedEmptyVec", <<>>)
  /\ TypedPopFailsOnOtherVariant

(***************************************************************************)
(* Properties of the arithmetic instructions.                              *)
(***************************************************************************)
\* The Int on top of the operand stack of the stepped frame and the Int
\* beneath it: the instruction pops the top one first.
TopInt == frame.operand_stack[Len(frame.operand_stack)].v
BeneathInt == frame.operand_stack[Len(frame.operand_stack) - 1].v

\* The stepped frame is at one of these opcodes with two Ints on top of its
\* operand stack.
AtIntArithmetic(opcodes) ==
  /\ status = "step"
  /\ HasOpcode(frame)
  /\ OpcodeAt(frame) \in opcodes
  /\ EndsWithInts(2)

\* C28: iadd, isub and imul push their result wrapped to 32 bits, the
\* operands taken in the order the instruction pops them, and do not abort
\* the run: Int(2147483647) + Int(1) gives Int(-2147483648).
C28_IntArithmeticWraps ==
  AtIntArithmetic({96, 100, 104})
    => /\ Outcome.r.kind = "Continue"
       /\ Outcome.f.operand_stack
            = Append(DropLast(frame.operand_stack, 2),
                     JInt(Wrapping(ArithmeticKind(OpcodeAt(frame)), TopInt,
                                   BeneathInt, 32)))
       /\ (OpcodeAt(frame) = 96 /\ {TopInt, BeneathInt} = {MaxInt32, 1})
            => Top(Outcome.f.operand_stack) = JInt(MinInt32)

\* C29: idiv divides the value beneath the top by the top of the operand
\* stack and pushes the quotient truncated toward zero; when the divisor,
\* the top, is zero the instruction fails and pushes nothing.
C29_DivisionTruncatesZeroIsFatal ==
  AtIntArithmetic({108})
    => IF TopInt = 0
       THEN /\ Outcome.r.kind \in {"Err", "Panic"}
            /\ Len(Outcome.f.operand_stack) <= Len(frame.operand_stack) - 1
       ELSE /\ Outcome.r.kind = "Continue"
            /\ Outcome.f.operand_stack
                 = Append(DropLast(frame.operand_stack, 2),
                          JInt(TruncDiv(BeneathInt, TopInt)))

(***************************************************************************)
(* Properties of the branch instructions.                                  *)
(***************************************************************************)
\* The stepped frame is at a goto or if_icmpge with its two operand bytes,
\* the if_icmpge with two Ints on top of the operand stack.
AtBranch ==
  /\ status = "step"
  /\ HasOpcode(frame)
  /\ OpcodeAt(frame) \in {162, 167}
  /\ frame.code_position + 3 <= Len(CodeOf(frame))
  /\ OpcodeAt(frame) = 162 => EndsWithInts(2)

\* The signed 16-bit big-endian operand of the branch at the code pointer.
BranchOperand ==
  LET d == OperandIndex(frame) IN IF d >= 32768 THEN d - 65536 ELSE d

\* The branch is taken: a goto, or an if_icmpge whose first value, the one
\* beneath the top, is at least its second, the top.
BranchTaken == OpcodeAt(frame) = 167 \/ BeneathInt >= TopInt

\* C30: a taken goto or if_icmpge at offset p with operand d goes on at
\* offset p + d, backward as well as forward; an if_icmpge that is not
\* taken goes on after its operand bytes.
C30_TakenBranchLandsAtTarget ==
  AtBranch
    => /\ Outcome.r.kind = "Continue"
       /\ Outcome.f.code_position
            = IF BranchTaken THEN frame.code_position + BranchOperand
              ELSE frame.code_position + 3

\* C31: an if_icmpge pops its two Ints whether or not it is taken and
\* leaves the rest of the frame alone, and one whose first value is less
\* than its second goes on at the instruction after its three bytes.
C31_IfIcmpgePopsTwoAndFallsThrough ==
  (AtBranch /\ OpcodeAt(frame) = 162)
    => /\ Outcome.r.kind = "Continue"
       /\ Outcome.f.operand_stack
            = SubSeq(frame.operand_stack, 1, Len(frame.operand_stack) - 2)
       /\ Outcome.f.variables = frame.variables
       /\ BeneathInt < TopInt
            => Outcome.f.code_position = frame.code_position + 3

\* An if_icmpge that is not taken, in a build that checks for overflow, with
\* an operand of -FarBranchAt, aborts the run.
UntakenFarBranchAborts ==
  /\ AtBranch
  /\ OpcodeAt(frame) = 162
  /\ BeneathInt < TopInt
  /\ BranchOperand = -FarBranchAt
  /\ overflow_checks
  /\ Outcome.r.kind = "Panic"

(***************************************************************************)
(* Properties of whole programs.                                           *)
(***************************************************************************)
\* The main method is the loop
\*   iconst_0; istore_1; head: iload_1; bipush 3; if_icmpge end; iload_1;
\*   invokestatic print(I)V; iinc 1,1; goto head; end: return.
RunsLoop ==
  classpath["Main"].methods["main"].code = Assemble(<<"loop_print_3">>)

\* The frame the driver steps next, and the offset of its code pointer (the
\* length of the code once the main frame has returned).
LoopFrame == IF status = "step" THEN frame ELSE stack[Len(stack)]
LoopPosition ==
  IF status = "step" \/ stack # <<>> THEN LoopFrame.code_position ELSE 19

\* The iterations the loop has yet to begin: 3 - i once local 1 holds i.
LoopIterationsLeft ==
  IF status # "step" /\ stack = <<>> THEN 0
  ELSE IF LoopFrame.variables[2].t = "Int"
       THEN 3 - LoopFrame.variables[2].v
       ELSE 4

\* The offsets of the instructions of the loop program in the order one
\* iteration runs them, an iteration beginning after the iinc at the goto.
LoopOrder == <<0, 1, 15, 2, 3, 5, 8, 9, 12, 18, 19>>

\* A variant of the loop program: the iterations yet to begin, then the
\* instructions of this iteration yet to run, then the turns of this
\* instruction yet to take.
LoopVariant ==
  LET rank == CHOOSE k \in 1..Len(LoopOrder) : LoopOrder[k] = LoopPosition
  IN LoopIterationsLeft * 100 + (Len(LoopOrder) - rank) * 3
       + (CASE status = "dispatch" -> 2 [] status = "step" -> 1 [] OTHER -> 0)

\* C32: the loop program prints 0, 1, 2 in that order and then terminates
\* with an empty frame stack: until it has finished the driver can take a
\* turn and is not aborted, every turn decreases a variant that is never
\* negative, and it finishes with exactly these three lines printed and no
\* frame left.
C32_LoopPrintsThreeAndTerminates ==
  /\ []((RunsLoop /\ status # "finished") => ENABLED Next)
  /\ [][RunsLoop
         => /\ LoopVariant' < LoopVariant
            /\ LoopVariant' >= 0
            /\ status' # "aborted"
            /\ status' = "finished"
                 => /\ stack' = <<>>
                    /\ output' = <<Decimal(0), Decimal(1), Decimal(2)>>]_vars

\* The loop program has finished with its three lines printed.
C32_Witness ==
  /\ RunsLoop
  /\ status = "finished"
  /\ stack = <<>>
  /\ output = <<<<48>>, <<49>>, <<50>>>>

(***************************************************************************)
(* Properties of the allocations of the driver.                            *)
(***************************************************************************)
\* C33: the AllocateString handler allocates an array of the characters of
\* the string, in order, then a java/lang/String whose field `value` refers
\* to that array, and pushes the reference of the String onto the frame that
\* asked for it, which goes back on the frame stack at the depth it was
\* popped from; the native print of that reference prints the string.
C33_AllocateStringBuildsPrintableString ==
  [][Handles({"AllocateString"})
       => LET contents == last'.arg
              value_array_pointer == object_heap.current_pointer
              string_pointer == value_array_pointer + 1
              objects == object_heap'.objects
          IN /\ DOMAIN objects
                  = DOMAIN object_heap.objects
                      \cup {value_array_pointer, string_pointer}
             /\ \A p \in DOMAIN object_heap.objects :
                  objects[p] = object_heap.objects[p]
             /\ objects[value_array_pointer].kind = "Array"
             /\ objects[value_array_pointer].count = Len(contents)
             /\ objects[value_array_pointer].store
                  = [i \in 1..Len(contents) |-> JChar(contents[i])]
             /\ objects[string_pointer].kind = "Object"
             /\ objects[string_pointer].class_name = STRING_CLASS
             /\ objects[string_pointer].instance_variables["value"]
                  = Reference(value_array_pointer)
             /\ Len(stack') = Len(stack) + 1
             /\ SubSeq(stack', 1, Len(stack)) = stack
             /\ stack'[Len(stack')].id = frame.id
             /\ stack'[Len(stack')].operand_stack
                  = Append(frame.operand_stack, Reference(string_pointer))
             /\ NativePrint(object_heap', <<Reference(string_pointer)>>)
                  = [ok |-> TRUE, line |-> contents, panic |-> ""]]_vars

\* The String "hi" was allocated and is on top of the operand stack of the
\* frame that loaded it.
C33_Witness ==
  /\ status = "dispatch"
  /\ last.kind = "Ok" /\ last.name = "AllocateString"
  /\ last.arg = <<104, 105>>
  /\ stack # <<>>
  /\ stack[Len(stack)].operand_stack = <<Reference(1)>>
  /\ object_heap.objects[0].store = <<JChar(104), JChar(105)>>

\* The stepped frame is at the opcode with these values, the last on top, at
\* the end of its operand stack.
AtOpcodeWith(opcode, n) ==
  /\ status = "step"
  /\ HasOpcode(frame)
  /\ OpcodeAt(frame) = opcode
  /\ Len(frame.operand_stack) >= n

\* The operand that is k - 1 beneath the top of the operand stack of the
\* stepped frame, and that operand stack without its n topmost values.
Operand(k) == frame.operand_stack[Len(frame.operand_stack) - k + 1]
Beneath(n) == SubSeq(frame.operand_stack, 1, Len(frame.operand_stack) - n)

\* The value refers to an array and the Int is an index of its elements.
IsArray(ref) == get_array(object_heap, ref).kind = "Ok"
IsIndexOf(ref, index) ==
  /\ IsArray(ref)
  /\ index.t = "Int"
  /\ index.v >= 0
  /\ index.v < Len(object_heap.objects[ref.v].store)

RunsStoreAndLoad ==
  classpath["Main"].methods["main"].code
    = Assemble(<<"bipush_5", "newarray", "dup", "iconst_2", "bipush_9",
                 "iastore", "iconst_2", "iaload", "print_int", "return">>)

\* C35: an iastore of the value v at an index i of the array a changes that
\* element of the heap to v and nothing else of the heap, and an iaload of a
\* at i then pushes v; the program that stores 9 at index 2 of an array of
\* five elements, loads that element and prints it, prints 9.
C35_IastoreThenIaloadRoundTrips ==
  /\ (AtOpcodeWith(79, 3) /\ IsIndexOf(Operand(3), Operand(2)))
       => LET a == Operand(3)
              i == Operand(2).v
              v == Operand(1)
              loading == [Outcome.f EXCEPT !.operand_stack = <<a, JInt(i)>>]
          IN /\ Outcome.r.kind = "Continue"
             /\ Outcome.f.operand_stack = Beneath(3)
             /\ Outcome.h
                  = [object_heap EXCEPT !.objects[a.v].store[i + 1] = v]
             /\ op_iaload(Machine(loading, Outcome.cs, Outcome.h))
                    .f.operand_stack = <<v>>
  /\ (RunsStoreAndLoad /\ status \in {"finished", "aborted"})
       => (status = "finished" /\ output = <<Decimal(9)>>)

\* An iastore has written 9 at index 2 of an array that holds Int(4) at
\* index 0, with a String and its characters on the heap.
C35_Witness ==
  /\ status = "step"
  /\ last.opcode = 79 /\ last.kind = "Continue"
  /\ IsArray(Reference(2))
  /\ object_heap.objects[2].store = <<JInt(4), Null, JInt(9), Null, Null>>
  /\ object_heap.objects[1].class_name = STRING_CLASS
  /\ frame.operand_stack = <<Reference(1), Reference(2)>>

\* The program that stores and loads has printed 9 and finished.
StoreAndLoadPrintsNine ==
  RunsStoreAndLoad /\ status = "finished" /\ output = <<<<57>>>>

\* The fields of the class of that name that are not static.
NonStaticFields(class_name) ==
  {classpath[class_name].fields[i] :
     i \in {j \in DOMAIN classpath[class_name].fields :
              ~classpath[class_name].fields[j].static}}

\* C36: the object the AllocateClass handler allocates has the name of its
\* class and a field map whose names are those of the fields of the class
\* that are not static: a field of descriptor I holds Int(0) and a field
\* whose descriptor begins with L or [ holds Null; no static field of the
\* class is in the map. The String of the AllocateString handler has the
\* non-static fields of java/lang/String.
C36_ObjectHasDefaultedInstanceFields ==
  [][/\ Handles({"AllocateClass"})
          => LET class_name == last'.arg
                 object == object_heap'.objects[object_heap.current_pointer]
             IN /\ object.kind = "Object"
                /\ object.class_name = class_name
                /\ DOMAIN object.instance_variables
                     = {f.name : f \in NonStaticFields(class_name)}
                /\ \A f \in NonStaticFields(class_name) :
                     /\ f.descriptor[1] = "I"
                          => object.instance_variables[f.name] = JInt(0)
                     /\ f.descriptor[1] \in {"L", "["}
                          => object.instance_variables[f.name] = Null
                /\ \A i \in DOMAIN classpath[class_name].fields :
                     classpath[class_name].fields[i].static
                       => classpath[class_name].fields[i].name
                            \notin DOMAIN object.instance_variables
     /\ Handles({"AllocateString"})
          => DOMAIN object_heap'.objects[object_heap.current_pointer + 1]
                      .instance_variables
               = {f.name : f \in NonStaticFields(STRING_CLASS)}]_vars

\* A Foo was allocated: its fields n, o and a hold their defaults and its
\* static field x is not among them.
C36_Witness ==
  /\ status = "dispatch"
  /\ last.kind = "Ok" /\ last.name = "AllocateClass"
  /\ get_object(object_heap, Reference(0)).kind = "Ok"
  /\ object_heap.objects[0].class_name = "Foo"
  /\ object_heap.objects[0].instance_variables
       = [n |-> JInt(0), o |-> Null, a |-> Null]

(***************************************************************************)
(* Properties of the order of operands.                                    *)
(***************************************************************************)
\* The two long values that end the operand stack of the stepped frame: the
\* one on top and the one beneath it.
TopLong == frame.operand_stack[Len(frame.operand_stack) - 1].v
BeneathLong == frame.operand_stack[Len(frame.operand_stack) - 3].v

\* C37: isub and lsub push the value beneath the top minus the top, idiv and
\* ldiv the value beneath the top divided by the top, as the JVM defines:
\* iconst_5; iconst_2; isub pushes Int(3) and iconst_4; iconst_2; idiv
\* pushes Int(2).
C37_SubtractAndDivideInJvmOrder ==
  /\ (AtIntArithmetic({100}) /\ Outcome.r.kind = "Continue")
       => Outcome.f.operand_stack
            = Append(DropLast(frame.operand_stack, 2),
                     JInt(WrappingSub(BeneathInt, TopInt)))
  /\ (AtIntArithmetic({108}) /\ TopInt # 0
      /\ ~(BeneathInt = MinInt32 /\ TopInt = -1))
       => /\ Outcome.r.kind = "Continue"
          /\ Outcome.f.operand_stack
               = Append(DropLast(frame.operand_stack, 2),
                        JInt(TruncDiv(BeneathInt, TopInt)))
  /\ (status = "step" /\ HasOpcode(frame) /\ OpcodeAt(frame) \in {101, 109}
      /\ EndsWithTwoLongs(frame.operand_stack)
      /\ (OpcodeAt(frame) = 109 => TopLong # 0))
       => /\ Outcome.r.kind = "Continue"
          /\ Outcome.f.operand_stack
               = DropLast(frame.operand_stack, 4)
                   \o <<JLong(IF OpcodeAt(frame) = 101
                              THEN BeneathLong - TopLong
                              ELSE TruncDiv(BeneathLong, TopLong)),
                        Filler>>

\* An isub on Int(5) beneath Int(2) goes on with Int(-3) pushed.
IsubSubtractsFromTheTop ==
  /\ AtIntArithmetic({100})
  /\ BeneathInt = 5 /\ TopInt = 2
  /\ Outcome.r.kind = "Continue"
  /\ Top(Outcome.f.operand_stack) = JInt(-3)

\* isub and idiv with the operands in the order the code takes them: the
\* value popped first, the top, minus or divided by the one beneath it.
IntOperandsInCodeOrder ==
  /\ (AtIntArithmetic({100}) /\ Outcome.r.kind = "Continue")
       => Top(Outcome.f.operand_stack) = JInt(WrappingSub(TopInt, BeneathInt))
  /\ (AtIntArithmetic({108}) /\ Outcome.r.kind = "Continue")
       => Top(Outcome.f.operand_stack) = JInt(TruncDiv(TopInt, BeneathInt))

\* The stepped frame is at one of these store instructions with a value to
\* pop and with the local slot the instruction names.
AtStore(opcodes) ==
  /\ status = "step"
  /\ HasOpcode(frame)
  /\ OpcodeAt(frame) \in opcodes
  /\ frame.operand_stack # <<>>
  /\ Len(frame.variables) > (IF OpcodeAt(frame) = 61 THEN 2 ELSE 1)

\* The local slot a store instruction names.
StoreSlot == IF OpcodeAt(frame) = 61 THEN 2 ELSE 1

\* The store instructions of these opcodes pop one value and put it in the
\* slot they name; every other slot keeps its value and its index.
OverwritesNamedSlot(opcodes) ==
  AtStore(opcodes)
    => /\ Outcome.r.kind = "Continue"
       /\ Outcome.f.operand_stack = DropLast(frame.operand_stack, 1)
       /\ Outcome.f.variables
            = [frame.variables EXCEPT ![StoreSlot + 1] = Top(frame.operand_stack)]

\* C38: istore_1, istore_2 and astore_1 pop one value and overwrite the
\* local slot they name with it; every other local slot keeps its value and
\* its index.
C38_StoresOverwriteNamedSlot == OverwritesNamedSlot({60, 61, 76})

\* An astore_1 on locals of four slots goes on with locals of five.
AstoreInsertsASlot ==
  /\ AtStore({76})
  /\ Len(frame.variables) = 4
  /\ Outcome.r.kind = "Continue"
  /\ Len(Outcome.f.variables) = 5
  /\ Outcome.f.variables[2] = Top(frame.operand_stack)
  /\ Outcome.f.variables[3] = frame.variables[2]

\* An istore_1 overwrites slot 1 while slot 2 holds a value stored before.
IstoreKeepsOtherSlots ==
  /\ AtStore({60})
  /\ frame.variables[3] = JInt(4)
  /\ Top(frame.operand_stack) = JInt(5)

(***************************************************************************)
(* Properties of the frame stack.                                          *)
(***************************************************************************)
\* C39: the frame the driver steps is the one it pops from the top of the
\* frame stack, and while it is stepped the frame stack does not change; a
\* frame that stays on the frame stack stays at its depth and keeps its code
\* pointer, operand stack and locals, but for the frame on top when the
\* frame stepped above it returns a value, which gets that one value pushed.
C39_OnlyTopFrameStepsOthersUntouched ==
  [][/\ status' = "step"
          => IF status = "step"
             THEN stack' = stack /\ frame'.id = frame.id
             ELSE /\ stack # <<>>
                  /\ frame' = stack[Len(stack)]
                  /\ stack' = SubSeq(stack, 1, Len(stack) - 1)
     /\ \A i \in DOMAIN stack \cap DOMAIN stack' :
          \/ stack'[i] = stack[i]
          \/ /\ Handles({"ReturnValue"})
             /\ i = Len(stack)
             /\ stack'[i]
                  = [stack[i] EXCEPT !.operand_stack = Append(@, last'.arg)]
     /\ status = "step"
          => \A i \in DOMAIN stack : i \in DOMAIN stack']_vars

\* A frame has returned a value to the frame beneath it, which has another
\* frame beneath it.
C39_Witness ==
  /\ status = "dispatch"
  /\ last.kind = "Ok" /\ last.name = "ReturnValue"
  /\ Len(stack) >= 2
  /\ stack[Len(stack)].operand_stack # <<>>
  /\ stack[Len(stack)].operand_stack[Len(stack[Len(stack)].operand_stack)]
       = last.arg

(***************************************************************************)
(* Properties of the conversion to byte.                                   *)
(***************************************************************************)
\* The low 8 bits of an Int read as a signed value.
LowByteSigned(n) ==
  LET low == n % 256 IN IF low >= 128 THEN low - 256 ELSE low

\* The main method is
\*   iconst_2; iconst_3; iadd; i2b; invokestatic print(B)V; return.
RunsAddAndNarrow ==
  classpath["Main"].methods["main"].code
    = Assemble(<<"iconst_2", "iconst_3", "iadd", "i2b", "print_byte",
                 "return">>)

\* C40: i2b replaces the Int on top of the operand stack by the Byte of its
\* low 8 bits read as a signed value, Int(200) by Byte(-56) and Int(5) by
\* Byte(5), and changes nothing else of the frame, the heap and the class
\* statics; the program iconst_2; iconst_3; iadd; i2b; print(B)V prints 5.
C40_I2bKeepsLowByte ==
  /\ (AtOpcodeWith(145, 1) /\ Operand(1).t = "Int")
       => /\ Outcome.r.kind = "Continue"
          /\ Outcome.f
               = [frame EXCEPT
                    !.code_position = @ + 1,
                    !.operand_stack =
                      Append(Beneath(1), JByte(LowByteSigned(Operand(1).v)))]
          /\ Outcome.h = object_heap
          /\ Outcome.cs = class_statics
          /\ Operand(1).v = 200 => Top(Outcome.f.operand_stack) = JByte(-56)
          /\ Operand(1).v = 5 => Top(Outcome.f.operand_stack) = JByte(5)
  /\ (RunsAddAndNarrow /\ status \in {"finished", "aborted"})
       => (status = "finished" /\ output = <<Decimal(5)>>)

\* An i2b has put Byte(-56) in the place of Int(200).
C40_Witness ==
  /\ status = "step"
  /\ last.opcode = 145 /\ last.kind = "Continue"
  /\ frame.operand_stack = <<JByte(-56)>>

\* The program that adds and narrows has printed 5 and finished.
AddAndNarrowPrintsFive ==
  RunsAddAndNarrow /\ status = "finished" /\ output = <<<<53>>>>

\* An i2b has narrowed Int(2147483647) to Byte(-1) above a String reference.
NarrowsMaxIntToMinusOne ==
  /\ status = "step"
  /\ last.opcode = 145 /\ last.kind = "Continue"
  /\ frame.operand_stack = <<Reference(1), JByte(-1)>>

====
